---- MODULE Spec2Model ----
(***************************************************************************)
(* A model of the SCHISM -> NEMO conversion scripts of plasticparcels:     *)
(*   MobileBayConverter.convert          (mobile_bay_schism_converter.py)  *)
(*   SCHISMTimeSeriesConverter           (schism_timeseries_to_...py)      *)
(*   convert_mobile_schism_robust        (mobile_converter_robust.py)      *)
(*   convert_mobile_schism_proper        (mobile_schism_to_nemo_proper.py) *)
(*   convert_mobile_schism_daily         (mobile_schism_daily_format.py)   *)
(*   SCHISMToNEMORegridder               (schism_to_nemo_regridder.py)     *)
(*   aggregate_mobile_timeseries         (aggregate_mobile_timeseries.py)  *)
(*   zarr_to_geojson, POST /simulate     (plasticparcels_api_server.py)    *)
(* One behaviour is one run of one of the scripts (prog), from its start   *)
(* to its return or its exception.  Snapshot files are known by their rank *)
(* 1..n in the processing order; a regridded 2-D slice is known by the     *)
(* snapshot and the time instant of that snapshot it was computed from.    *)
(* Arrays are sequences: index h of the code is element h + 1 here.        *)
(***************************************************************************)
EXTENDS Integers, Sequences, FiniteSets, TLC

VARIABLES
    prog,           \* the entry point that runs
    pc,             \* its position
    all_files,      \* number of files the glob found / the caller listed
    max_files,      \* convert(max_files): 0 stands for None
    hours_per_day,  \* MobileBayConverter.hours_per_day
    schism_files,   \* length of schism_files / test_files
    n_days,         \* convert: n_days
    day,            \* convert: day
    h,              \* convert: h
    t,              \* loop index t of the other scripts
    target_shape,   \* target_lon_2d.shape = <<ny, nx>>
    data,           \* the accumulating arrays: daily_data, regridded_data, u_data ...
    ds_n_times,     \* history: time instants the snapshot opened last declares
    time_info,      \* SCHISMTimeSeriesConverter.time_info
    combined_ds,    \* SCHISMTimeSeriesConverter.combined_ds, its time axis
    out,            \* files this run has written to output_dir: name -> content
    lons,           \* regridding: node longitudes
    lats,           \* regridding: node latitudes
    vals,           \* regridding: node values of the variable at hand
    griddata_call,  \* regridding: the last call of scipy's griddata
    target_resolution, \* target_resolution, in the unit of the coordinates
    depths,         \* node depths, as load_schism_grid returns them
    target_lons,    \* create_target_grid: target_lons
    target_lats,    \* create_target_grid: target_lats
    bathy_regridded,\* create_bathymetry: its result
    regridded,      \* regrid_schism_data / regrid_variable: what it returns
    warnings,       \* the warnings logged so far
    mbathy,         \* save_mesh_files: mbathy
    ds_missing,     \* history: the variables the snapshot read last lacks
    open_files,     \* the snapshot files that are open
    lon_bounds,     \* lon_bounds as main hands it on: <<>> stands for None
    lat_bounds,     \* lat_bounds
    spatial_mask,   \* self.spatial_mask
    subset,         \* the nodes self.lons, self.lats and self.depths hold
    opened,         \* history: how often a snapshot file was opened
    griddata_calls, \* history: the calls of griddata, the nodes each was given
    extent_nodes,   \* history: the nodes create_target_grid took its extent from
    target_depths,  \* SCHISMToNEMORegridder.target_depths, in tenths of a metre
    listing,        \* the numbers of the files (directories) the glob matches
    file_input,     \* _parse_file_input: its argument
    sorted_files,   \* the file list a converter keeps, by file number
    work_dirs,      \* aggregate: per work directory, the files it holds
    datasets,       \* aggregate: datasets[var], one entry per time step
    run,            \* the number of the run into the output directory
    disk,           \* what earlier runs left in the output directory: name -> run
    trajectories,   \* the trajectory dataset: lon and lat arrays
    features,       \* zarr_to_geojson: features
    request,        \* the body of the /simulate request
    tmp_files,      \* the temporary trajectory outputs that exist on disk
    response        \* the status code of the response: 0 before there is one

vars == <<prog, pc, all_files, max_files, hours_per_day, schism_files, n_days,
          day, h, t, target_shape, data, ds_n_times, time_info,
          combined_ds, out, lons, lats, vals, griddata_call,
          target_resolution, depths,
          target_lons, target_lats, bathy_regridded, regridded, warnings,
          mbathy, ds_missing, open_files, lon_bounds, lat_bounds,
          spatial_mask, subset, opened, griddata_calls, extent_nodes,
          target_depths, listing, file_input, sorted_files, work_dirs, datasets, run, disk,
          trajectories, features, request, tmp_files, response>>

regridVars == <<lons, lats, vals, griddata_call>>
tsVars == <<time_info, combined_ds>>
gridVars == <<target_resolution, depths, target_lons, target_lats, bathy_regridded, regridded,
              warnings, mbathy>>
handleVars == <<ds_missing, open_files>>
serviceVars == <<listing, file_input, sorted_files, work_dirs, datasets, run,
                 disk, trajectories, features, request, tmp_files, response>>
toolVars == <<target_depths, serviceVars>>
boundsVars == <<lon_bounds, lat_bounds, spatial_mask, subset, opened,
                griddata_calls, extent_nodes>>

(***************************************************************************)
(* Bounds of the model.                                                    *)
(***************************************************************************)
MaxFiles == 6
MaxListed == 3
MaxHpd == 6
MaxInstants == 2
MaxExtent == 1
NNodes == 2
MaxNumber == 10
MaxDirs == 3
MaxRuns == 2
MaxLevels == 2
MaxParticles == 2
MaxObs == 2

(***************************************************************************)
(* Program constants.                                                      *)
(***************************************************************************)
SecondsPerHour == 3600
FirstFiles == 5
BaseYear == 2024
HoursPerCalendarDay == 24

Min(a, b) == IF a <= b THEN a ELSE b

NoAttr == "(no attribute)"
SecondsUnits == "seconds since 2024-01-01 00:00:00"

\* The three variables each script regrids, and the five files it writes.
RegridVars == {"U", "V", "elevation"}
VarLetters == {"U", "V", "W", "T", "S"}

\* np.zeros: a slice nothing was computed into.
Zeros == [file |-> 0, instant |-> 0, var |-> "zeros"]
\* np.full_like(.., 35.0): the constant salinity.
Full35 == [file |-> 0, instant |-> 0, var |-> "35.0"]
\* The 2-D slice regridded from variable v at instant i (0-based) of snapshot f.
Slice(f, i, v) == [file |-> f, instant |-> i, var |-> v]

\* np.arange(start, stop) for integers, as a sequence.
Arange(start, stop) ==
    [i \in 1..(IF stop > start THEN stop - start ELSE 0) |-> start + i - 1]

\* a[:n]
Take(a, n) == [i \in 1..Min(n, Len(a)) |-> a[i]]

\* np.arange(lo, hi + resolution, resolution) has ceil((hi + r - lo) / r) points;
\* extents are in units in which lo, hi and r are integers.
ArangeLen(lo, hi, r) == IF hi + r > lo THEN (hi + r - lo + r - 1) \div r ELSE 0

\* np.zeros(grid_shape): an array of n time slices.  writes is history: how
\* often each time slice was assigned since the allocation.
ZerosArray(n, shape) ==
    [shape |-> <<n>> \o shape,
     slices |-> [i \in 1..n |-> Zeros],
     writes |-> [i \in 1..n |-> 0]]

\* np.full_like(a, 35.0) and np.zeros_like(a)
FullLike(a, v) ==
    [shape |-> a.shape,
     slices |-> [i \in 1..Len(a.slices) |-> v],
     writes |-> [i \in 1..Len(a.slices) |-> 0]]

\* The files of output_dir are named by a stem and a date string (<<>>: none).
FileName(stem, date_str) == <<stem, date_str>>

\* files with file `name` written (again): to_netcdf and open(.., 'w') replace it.
Put(files, name, content) ==
    [n \in DOMAIN files \cup {name} |-> IF n = name THEN content ELSE files[n]]

\* The first j of the five files of one save loop, in the order of the dict.
LetterOrder == <<"U", "V", "W", "T", "S">>

NemoVar(letter) ==
    CASE letter = "U" -> "vozocrtx"
      [] letter = "V" -> "vomecrty"
      [] letter = "W" -> "vovecrtz"
      [] letter = "T" -> "votemper"
      [] letter = "S" -> "vosaline"

\* The `variables` dict of the save functions: the array each letter's file holds.
VariablesDict(d, letter) ==
    CASE letter = "U" -> d["U"]
      [] letter = "V" -> d["V"]
      [] letter = "W" -> FullLike(d["U"], Zeros)
      [] letter = "T" -> d["elevation"]
      [] letter = "S" -> FullLike(d["U"], Full35)

\* One field file: a Dataset of one variable over (time_counter, y, x).
FieldDataset(letter, d, time_counter, units) ==
    [nemo_var |-> NemoVar(letter),
     dims |-> <<"time_counter", "y", "x">>,
     time_counter |-> time_counter,
     units |-> units,
     shape |-> VariablesDict(d, letter).shape,
     slices |-> VariablesDict(d, letter).slices]

\* files after the first j files of the save loop were written under date_str.
RECURSIVE SaveLoop(_, _, _, _, _, _)
SaveLoop(files, j, date_str, d, time_counter, units) ==
    IF j = 0 THEN files
    ELSE Put(SaveLoop(files, j - 1, date_str, d, time_counter, units),
             FileName(LetterOrder[j], date_str),
             FieldDataset(LetterOrder[j], d, time_counter, units))

(***************************************************************************)
(* datetime: base_date + timedelta, and strftime.                          *)
(***************************************************************************)
DaysInMonth == <<31, 29, 31, 30, 31, 30, 31, 31, 30, 31, 30, 31>>

RECURSIVE MonthDay(_, _)
MonthDay(month, offset) ==
    IF offset < DaysInMonth[month] THEN <<month, offset + 1>>
    ELSE MonthDay(month + 1, offset - DaysInMonth[month])

\* (datetime(2024, 1, 1) + timedelta(days=d)).strftime('%Y-%m-%d')
StrftimeYmd(d) == <<BaseYear>> \o MonthDay(1, d)

\* (datetime(2024, 1, 1) + timedelta(hours=n)).strftime('%Y-%m-%d-%H')
StrftimeYmdH(n) ==
    StrftimeYmd(n \div HoursPerCalendarDay) \o <<n % HoursPerCalendarDay>>

(***************************************************************************)
(* MobileBayConverter                                                      *)
(***************************************************************************)
\* get_schism_files: the sorted list cut to max_files, when that is given.
get_schism_files(found, mf) == IF mf # 0 THEN Min(found, mf) ELSE found

\* Mutant of NDays: the remainder's day is forgotten.
NDays_floor(n, hpd) == n \div hpd

\* convert: the number of daily files.
NDays(n, hpd) == n \div hpd + (IF n % hpd # 0 THEN 1 ELSE 0)

\* convert: the snapshots of one day, schism_files[start_idx:end_idx].
start_idx(d, hpd) == d * hpd
end_idx(d, hpd, n) == Min((d + 1) * hpd, n)
day_files(d, hpd, n) ==
    [i \in 1..(end_idx(d, hpd, n) - start_idx(d, hpd)) |-> start_idx(d, hpd) + i]

\* Mutant of time_hours: every day's hours start at 0 again.
time_hours_of_day(d, hpd, n_hours) == Take(Arange(0, hpd), n_hours)

\* save_daily_files: time_hours, then time_seconds.
time_hours(d, hpd, n_hours) == Take(Arange(d * hpd, (d + 1) * hpd), n_hours)

\* Mutant of time_seconds: the hours are written as they are.
time_seconds_unscaled(d, hpd, n_hours) == time_hours(d, hpd, n_hours)

time_seconds(d, hpd, n_hours) ==
    [i \in 1..Len(time_hours(d, hpd, n_hours)) |->
        time_hours(d, hpd, n_hours)[i] * SecondsPerHour]

\* create_target_grid: target_lon_2d.shape for a node cloud of the given extents.
create_target_grid(lon_extent, lat_extent, resolution) ==
    <<ArangeLen(0, lat_extent, resolution), ArangeLen(0, lon_extent, resolution)>>

\* Mutant of SetSlice: every slice is assigned to time index 0.
SetSlice_first(a, idx, v) ==
    [a EXCEPT !.slices[1] = v, !.writes[1] = @ + 1]

\* daily_data[var][h, :, :] = regridded[var]
SetSlice(a, idx, v) ==
    [a EXCEPT !.slices[idx + 1] = v, !.writes[idx + 1] = @ + 1]

Fail == pc' = "failed"

\* The variables a script reads from a snapshot.
SourceVars == {"depthAverageVelX", "depthAverageVelY", "elevation"}

\* Mutant of KeyError: a variable the snapshot lacks is passed over.
KeyError_never(held) == FALSE

\* ds[name] for each name of SourceVars, in the try block and again in its
\* except block: held is the set of variables the snapshot has.
KeyError(held) == \E name \in SourceVars : name \notin held

\* `with xr.open_dataset(f) as ds:` the handle is closed however the body ends.
with_open(handles, f, raised) == handles

\* `ds = xr.open_dataset(f)` .. `ds.close()`: a body that raises skips the close.
open_close(handles, f, raised) == IF raised THEN handles \cup {f} ELSE handles

\* convert, up to the loop over the days.
MB_convert_begin ==
    /\ prog = "mobile_bay" /\ pc = "start"
    /\ schism_files' = get_schism_files(all_files, max_files)
    /\ \/ /\ schism_files' = 0            \* raise ValueError("No SCHISM files found")
          /\ Fail
          /\ UNCHANGED <<target_shape, n_days>>
       \/ /\ schism_files' > 0            \* load_schism_grid raises
          /\ Fail
          /\ UNCHANGED <<target_shape, n_days>>
       \/ /\ schism_files' > 0
          /\ \E lon_extent \in 0..MaxExtent, lat_extent \in 0..MaxExtent :
                target_shape' = create_target_grid(lon_extent, lat_extent, 1)
          /\ n_days' = NDays(schism_files', hours_per_day)
          /\ pc' = "day"
    /\ day' = 0
    /\ open_files' = with_open(open_files, 1, pc' = "failed")
    /\ UNCHANGED <<prog, all_files, max_files, hours_per_day, h, t, data,
                   ds_n_times, out, ds_missing>>
    /\ UNCHANGED tsVars /\ UNCHANGED regridVars /\ UNCHANGED gridVars
    /\ UNCHANGED boundsVars
    /\ UNCHANGED toolVars

\* One pass of `for day in range(n_days)`, up to the loop over the hours.
MB_begin_day ==
    /\ prog = "mobile_bay" /\ pc = "day" /\ day < n_days
    /\ LET n_hours == Len(day_files(day, hours_per_day, schism_files))
       IN /\ data' = [v \in RegridVars |-> ZerosArray(n_hours, target_shape)]
    /\ h' = 0
    /\ pc' = "hour"
    /\ UNCHANGED <<prog, all_files, max_files, hours_per_day, schism_files, n_days,
                   day, t, target_shape, ds_n_times, out>>
    /\ UNCHANGED tsVars /\ UNCHANGED regridVars /\ UNCHANGED gridVars
    /\ UNCHANGED handleVars /\ UNCHANGED boundsVars
    /\ UNCHANGED toolVars

\* One pass of `for h, file_path in enumerate(day_files)`: regrid_schism_data
\* takes [0, :] of a snapshot with a time axis and the whole of one without.
MB_process_hour ==
    /\ prog = "mobile_bay" /\ pc = "hour"
    /\ h < Len(day_files(day, hours_per_day, schism_files))
    /\ LET file_path == day_files(day, hours_per_day, schism_files)[h + 1]
       IN \/ /\ \E held \in SUBSET SourceVars :
                  /\ ds_missing' = SourceVars \ held
                  /\ IF KeyError(held)
                     THEN /\ Fail         \* raised again by the except block
                          /\ open_files' = with_open(open_files, file_path, TRUE)
                          /\ UNCHANGED <<ds_n_times, data, h>>
                     ELSE /\ \E n_times \in 1..MaxInstants :
                                ds_n_times' = n_times
                          /\ data' = [v \in RegridVars |->
                                SetSlice(data[v], h, Slice(file_path, 0, v))]
                          /\ open_files' = with_open(open_files, file_path, FALSE)
                          /\ h' = h + 1
                          /\ pc' = "hour"
          \/ /\ Fail                     \* xr.open_dataset or griddata raises
             /\ open_files' = with_open(open_files, file_path, TRUE)
             /\ UNCHANGED <<ds_n_times, data, h, ds_missing>>
    /\ UNCHANGED <<prog, all_files, max_files, hours_per_day, schism_files, n_days,
                   day, t, target_shape, out>>
    /\ UNCHANGED tsVars /\ UNCHANGED regridVars /\ UNCHANGED gridVars
    /\ UNCHANGED boundsVars
    /\ UNCHANGED toolVars

\* save_daily_files for the day just filled; to_netcdf may raise at any file.
MB_save_daily_files ==
    /\ prog = "mobile_bay" /\ pc = "hour"
    /\ h = Len(day_files(day, hours_per_day, schism_files))
    /\ LET date_str == StrftimeYmd(day)
           n_hours == data["U"].shape[1]
           tc == time_seconds(day, hours_per_day, n_hours)
       IN \/ /\ out' = SaveLoop(out, Len(LetterOrder), date_str, data, tc, SecondsUnits)
             /\ day' = day + 1
             /\ pc' = "day"
          \/ /\ \E j \in 0..(Len(LetterOrder) - 1) :
                    out' = SaveLoop(out, j, date_str, data, tc, SecondsUnits)
             /\ Fail
             /\ UNCHANGED day
    /\ UNCHANGED <<prog, all_files, max_files, hours_per_day, schism_files, n_days,
                   h, t, target_shape, data, ds_n_times>>
    /\ UNCHANGED tsVars /\ UNCHANGED regridVars /\ UNCHANGED gridVars
    /\ UNCHANGED handleVars /\ UNCHANGED boundsVars
    /\ UNCHANGED toolVars

MeshFile == FileName("ocean_mesh_hgr.nc", <<>>)
BathyFile == FileName("bathymetry_mesh_zgr.nc", <<>>)
SettingsFile == FileName("settings.json", <<>>)

\* Mutant of MB_save_mesh_files: the bathymetry file is never written.
MB_save_mesh_files_no_bathy ==
    /\ prog = "mobile_bay" /\ pc = "day" /\ day = n_days
    /\ out' = Put(out, FileName("ocean_mesh_hgr.nc", <<>>),
                  [variables |-> {"nav_lon", "nav_lat", "x", "y"},
                   shape |-> target_shape])
    /\ pc' = "settings"
    /\ UNCHANGED <<prog, all_files, max_files, hours_per_day, schism_files, n_days,
                   day, h, t, target_shape, data, ds_n_times>>
    /\ UNCHANGED tsVars /\ UNCHANGED regridVars /\ UNCHANGED gridVars
    /\ UNCHANGED handleVars /\ UNCHANGED boundsVars
    /\ UNCHANGED toolVars

\* save_mesh_files: the mesh file, then the bathymetry file.
MB_save_mesh_files ==
    /\ prog = "mobile_bay" /\ pc = "day" /\ day = n_days
    /\ LET mesh == [variables |-> {"nav_lon", "nav_lat", "x", "y"}, shape |-> target_shape]
           bathy == [variables |-> {"mbathy", "nav_lon", "nav_lat"}, shape |-> target_shape]
       IN \/ /\ out' = Put(Put(out, MeshFile, mesh), BathyFile, bathy)
             /\ pc' = "settings"
          \/ /\ out' = Put(out, MeshFile, mesh)
             /\ Fail
          \/ /\ out' = out
             /\ Fail
    /\ UNCHANGED <<prog, all_files, max_files, hours_per_day, schism_files, n_days,
                   day, h, t, target_shape, data, ds_n_times>>
    /\ UNCHANGED tsVars /\ UNCHANGED regridVars /\ UNCHANGED gridVars
    /\ UNCHANGED handleVars /\ UNCHANGED boundsVars
    /\ UNCHANGED toolVars

\* The descriptor of save_settings.
MB_settings ==
    [ocean_mesh |-> "ocean_mesh_hgr.nc",
     bathymetry_mesh |-> "bathymetry_mesh_zgr.nc",
     allow_time_extrapolation |-> TRUE,
     time |-> "time_counter"]

\* Mutant of MB_save_settings: the descriptor is written before the days.
MB_save_settings_first ==
    /\ prog = "mobile_bay"
    /\ \/ /\ pc = "day" /\ day = 0 /\ SettingsFile \notin DOMAIN out
          /\ out' = Put(out, SettingsFile, MB_settings)
          /\ pc' = "day"
       \/ /\ pc = "settings"
          /\ out' = out
          /\ pc' = "done"
    /\ UNCHANGED <<prog, all_files, max_files, hours_per_day, schism_files, n_days,
                   day, h, t, target_shape, data, ds_n_times>>
    /\ UNCHANGED tsVars /\ UNCHANGED regridVars /\ UNCHANGED gridVars
    /\ UNCHANGED handleVars /\ UNCHANGED boundsVars
    /\ UNCHANGED toolVars

\* save_settings, and convert returns True.
MB_save_settings ==
    /\ prog = "mobile_bay" /\ pc = "settings"
    /\ \/ /\ out' = Put(out, SettingsFile, MB_settings)
          /\ pc' = "done"
       \/ /\ out' = out                  \* open(settings_file, 'w') raises
          /\ Fail
    /\ UNCHANGED <<prog, all_files, max_files, hours_per_day, schism_files, n_days,
                   day, h, t, target_shape, data, ds_n_times>>
    /\ UNCHANGED tsVars /\ UNCHANGED regridVars /\ UNCHANGED gridVars
    /\ UNCHANGED handleVars /\ UNCHANGED boundsVars
    /\ UNCHANGED toolVars

NextMobileBay ==
    \/ MB_convert_begin
    \/ MB_begin_day
    \/ MB_process_hour
    \/ MB_save_daily_files
    \/ MB_save_mesh_files
    \/ MB_save_settings

(***************************************************************************)
(* convert_mobile_schism_robust                                            *)
(***************************************************************************)
\* all_files[:5]
first_files(found) == Min(found, FirstFiles)

\* f"{var_letter}_2024-01-01.nc": the date is a literal of the script.
RobustDate == <<2024, 1, 1>>
TimeseriesSettingsFile == FileName("timeseries_settings.json", <<>>)

\* time_hours = np.arange(n_times, dtype=float)
hour_counter(n_times) == Arange(0, n_times)

\* The script up to its loop over test_files.
RB_begin ==
    /\ prog = "robust" /\ pc = "start"
    /\ schism_files' = first_files(all_files)
    /\ \/ /\ schism_files' = 0            \* test_files[0] raises IndexError
          /\ Fail
          /\ UNCHANGED <<target_shape, data, open_files>>
       \/ /\ schism_files' > 0            \* xr.open_dataset(test_files[0]) raises
          /\ Fail
          /\ UNCHANGED <<target_shape, data, open_files>>
       \/ /\ schism_files' > 0            \* ds0[..] raises before ds0.close()
          /\ Fail
          /\ open_files' = open_close(open_files, 1, TRUE)
          /\ UNCHANGED <<target_shape, data>>
       \/ /\ schism_files' > 0
          /\ open_files' = open_close(open_files, 1, FALSE)
          /\ \E lon_extent \in 0..MaxExtent, lat_extent \in 0..MaxExtent :
                target_shape' = create_target_grid(lon_extent, lat_extent, 1)
          /\ data' = [v \in RegridVars |-> ZerosArray(schism_files', target_shape')]
          /\ pc' = "loop"
    /\ t' = 0
    /\ UNCHANGED <<prog, all_files, max_files, hours_per_day, n_days, day, h,
                   ds_n_times, out, ds_missing>>
    /\ UNCHANGED tsVars /\ UNCHANGED regridVars /\ UNCHANGED gridVars
    /\ UNCHANGED boundsVars
    /\ UNCHANGED toolVars

\* One pass of `for t, file_path in enumerate(test_files)`.
RB_process_file ==
    /\ prog = "robust" /\ pc = "loop" /\ t < schism_files
    /\ LET file_path == t + 1
       IN \/ /\ \E n_times \in 1..MaxInstants : ds_n_times' = n_times
             /\ data' = [v \in RegridVars |->
                            SetSlice(data[v], t, Slice(file_path, 0, v))]
             /\ open_files' = open_close(open_files, file_path, FALSE)
             /\ t' = t + 1
             /\ pc' = "loop"
          \/ /\ Fail                     \* xr.open_dataset raises
             /\ UNCHANGED <<ds_n_times, data, t, open_files>>
          \/ /\ Fail                     \* the except block or griddata raises
             /\ open_files' = open_close(open_files, file_path, TRUE)
             /\ UNCHANGED <<ds_n_times, data, t>>
    /\ UNCHANGED <<prog, all_files, max_files, hours_per_day, schism_files, n_days,
                   day, h, target_shape, out, ds_missing>>
    /\ UNCHANGED tsVars /\ UNCHANGED regridVars /\ UNCHANGED gridVars
    /\ UNCHANGED boundsVars
    /\ UNCHANGED toolVars

\* The five field files: time_counter carries no attribute.
RB_save_fields ==
    /\ prog = "robust" /\ pc = "loop" /\ t = schism_files
    /\ LET n_times == schism_files
           tc == hour_counter(n_times)
       IN \/ /\ out' = SaveLoop(out, Len(LetterOrder), RobustDate, data, tc, NoAttr)
             /\ pc' = "mesh"
          \/ /\ \E j \in 0..(Len(LetterOrder) - 1) :
                    out' = SaveLoop(out, j, RobustDate, data, tc, NoAttr)
             /\ Fail
    /\ UNCHANGED <<prog, all_files, max_files, hours_per_day, schism_files, n_days,
                   day, h, t, target_shape, data, ds_n_times>>
    /\ UNCHANGED tsVars /\ UNCHANGED regridVars /\ UNCHANGED gridVars
    /\ UNCHANGED handleVars /\ UNCHANGED boundsVars
    /\ UNCHANGED toolVars

\* The mesh file, then the bathymetry file.
RB_save_mesh ==
    /\ prog = "robust" /\ pc = "mesh"
    /\ LET mesh == [variables |-> {"nav_lon", "nav_lat", "glamf", "gphif"},
                    shape |-> target_shape]
           bathy == [variables |-> {"mbathy", "nav_lon", "nav_lat"},
                     shape |-> <<1>> \o target_shape]
       IN \/ /\ out' = Put(Put(out, MeshFile, mesh), BathyFile, bathy)
             /\ pc' = "settings"
          \/ /\ out' = Put(out, MeshFile, mesh)
             /\ Fail
          \/ /\ out' = out
             /\ Fail
    /\ UNCHANGED <<prog, all_files, max_files, hours_per_day, schism_files, n_days,
                   day, h, t, target_shape, data, ds_n_times>>
    /\ UNCHANGED tsVars /\ UNCHANGED regridVars /\ UNCHANGED gridVars
    /\ UNCHANGED handleVars /\ UNCHANGED boundsVars
    /\ UNCHANGED toolVars

\* The descriptor the robust and the time series scripts write.
timeseries_settings ==
    [ocean_mesh |-> "ocean_mesh_hgr.nc",
     bathymetry_mesh |-> "bathymetry_mesh_zgr.nc",
     allow_time_extrapolation |-> FALSE,
     time |-> "time_counter"]

RB_save_settings ==
    /\ prog = "robust" /\ pc = "settings"
    /\ \/ /\ out' = Put(out, TimeseriesSettingsFile, timeseries_settings)
          /\ pc' = "done"
       \/ /\ out' = out
          /\ Fail
    /\ UNCHANGED <<prog, all_files, max_files, hours_per_day, schism_files, n_days,
                   day, h, t, target_shape, data, ds_n_times>>
    /\ UNCHANGED tsVars /\ UNCHANGED regridVars /\ UNCHANGED gridVars
    /\ UNCHANGED handleVars /\ UNCHANGED boundsVars
    /\ UNCHANGED toolVars

NextRobust ==
    \/ RB_begin
    \/ RB_process_file
    \/ RB_save_fields
    \/ RB_save_mesh
    \/ RB_save_settings

(***************************************************************************)
(* convert_mobile_schism_proper: one file set per snapshot                 *)
(***************************************************************************)
\* 'time_counter': ('time_counter', [0.0]) of the file of time step tt
proper_time_counter(tt) == <<0>>

\* One hourly file: a Dataset of one variable over (deptht, y, x), with the
\* coordinate time_counter beside it.
HourlyDataset(letter, d, time_counter) ==
    [nemo_var |-> NemoVar(letter),
     dims |-> <<"deptht", "y", "x">>,
     time_counter |-> time_counter,
     units |-> NoAttr,
     shape |-> VariablesDict(d, letter).shape,
     slices |-> VariablesDict(d, letter).slices]

RECURSIVE SaveHourly(_, _, _, _, _)
SaveHourly(files, j, date_str, d, time_counter) ==
    IF j = 0 THEN files
    ELSE Put(SaveHourly(files, j - 1, date_str, d, time_counter),
             FileName(LetterOrder[j], date_str),
             HourlyDataset(LetterOrder[j], d, time_counter))

PR_begin ==
    /\ prog = "proper" /\ pc = "start"
    /\ schism_files' = first_files(all_files)
    /\ \/ /\ schism_files' = 0            \* test_files[0] raises IndexError
          /\ Fail
          /\ UNCHANGED <<target_shape, open_files>>
       \/ /\ schism_files' > 0            \* xr.open_dataset(test_files[0]) raises
          /\ Fail
          /\ UNCHANGED <<target_shape, open_files>>
       \/ /\ schism_files' > 0            \* ds0[..] raises before ds0.close()
          /\ Fail
          /\ open_files' = open_close(open_files, 1, TRUE)
          /\ UNCHANGED target_shape
       \/ /\ schism_files' > 0
          /\ open_files' = open_close(open_files, 1, FALSE)
          /\ \E lon_extent \in 0..MaxExtent, lat_extent \in 0..MaxExtent :
                target_shape' = create_target_grid(lon_extent, lat_extent, 1)
          /\ pc' = "loop"
    /\ t' = 0
    /\ UNCHANGED <<prog, all_files, max_files, hours_per_day, n_days, day, h,
                   data, ds_n_times, out, ds_missing>>
    /\ UNCHANGED tsVars /\ UNCHANGED regridVars /\ UNCHANGED gridVars
    /\ UNCHANGED boundsVars
    /\ UNCHANGED toolVars

\* One pass of `for t, file_path in enumerate(test_files)`: read, regrid, and
\* write the five files of this hour.
PR_process_file ==
    /\ prog = "proper" /\ pc = "loop" /\ t < schism_files
    /\ LET file_path == t + 1
           date_str == StrftimeYmdH(t)
           regridded_data == [v \in RegridVars |->
                [shape |-> <<1>> \o target_shape,
                 slices |-> <<Slice(file_path, 0, v)>>,
                 writes |-> <<1>>]]
       IN \/ /\ \E n_times \in 1..MaxInstants : ds_n_times' = n_times
             /\ data' = regridded_data
             /\ open_files' = open_close(open_files, file_path, FALSE)
             /\ \/ /\ out' = SaveHourly(out, Len(LetterOrder), date_str,
                                       regridded_data, proper_time_counter(t))
                   /\ t' = t + 1
                   /\ pc' = "loop"
                \/ /\ \E j \in 0..(Len(LetterOrder) - 1) :
                        out' = SaveHourly(out, j, date_str, regridded_data,
                                          proper_time_counter(t))
                   /\ Fail
                   /\ UNCHANGED t
          \/ /\ Fail                     \* xr.open_dataset or griddata raises
             /\ UNCHANGED <<ds_n_times, data, out, t, open_files>>
          \/ /\ Fail                     \* the except block raises
             /\ open_files' = open_close(open_files, file_path, TRUE)
             /\ UNCHANGED <<ds_n_times, data, out, t>>
    /\ UNCHANGED <<prog, all_files, max_files, hours_per_day, schism_files, n_days,
                   day, h, target_shape, ds_missing>>
    /\ UNCHANGED tsVars /\ UNCHANGED regridVars /\ UNCHANGED gridVars
    /\ UNCHANGED boundsVars
    /\ UNCHANGED toolVars

PR_save_mesh ==
    /\ prog = "proper" /\ pc = "loop" /\ t = schism_files
    /\ LET mesh == [variables |-> {"nav_lon", "nav_lat", "x", "y"}, shape |-> target_shape]
           bathy == [variables |-> {"mbathy", "nav_lon", "nav_lat"}, shape |-> target_shape]
       IN \/ /\ out' = Put(Put(out, MeshFile, mesh), BathyFile, bathy)
             /\ pc' = "settings"
          \/ /\ out' = Put(out, MeshFile, mesh)
             /\ Fail
          \/ /\ out' = out
             /\ Fail
    /\ UNCHANGED <<prog, all_files, max_files, hours_per_day, schism_files, n_days,
                   day, h, t, target_shape, data, ds_n_times>>
    /\ UNCHANGED tsVars /\ UNCHANGED regridVars /\ UNCHANGED gridVars
    /\ UNCHANGED handleVars /\ UNCHANGED boundsVars
    /\ UNCHANGED toolVars

PR_save_settings ==
    /\ prog = "proper" /\ pc = "settings"
    /\ \/ /\ out' = Put(out, SettingsFile, MB_settings)
          /\ pc' = "done"
       \/ /\ out' = out
          /\ Fail
    /\ UNCHANGED <<prog, all_files, max_files, hours_per_day, schism_files, n_days,
                   day, h, t, target_shape, data, ds_n_times>>
    /\ UNCHANGED tsVars /\ UNCHANGED regridVars /\ UNCHANGED gridVars
    /\ UNCHANGED handleVars /\ UNCHANGED boundsVars
    /\ UNCHANGED toolVars

NextProper ==
    \/ PR_begin
    \/ PR_process_file
    \/ PR_save_mesh
    \/ PR_save_settings

(***************************************************************************)
(* convert_mobile_schism_daily (mobile_schism_daily_format.py)             *)
(***************************************************************************)
\* test_files = all_files[:12], hours_per_day = 6
DailyFirstFiles == 12
DailyHoursPerDay == 6

\* n_days = len(test_files) // hours_per_day
daily_n_days(n, hpd) == n \div hpd

\* u_data, v_data and elev_data of one day, every hour of day_files assigned.
daily_arrays(files, shape) ==
    [v \in RegridVars |->
        [shape |-> <<Len(files)>> \o shape,
         slices |-> [i \in 1..Len(files) |-> Slice(files[i], 0, v)],
         writes |-> [i \in 1..Len(files) |-> 1]]]

\* The script up to `for day in range(n_days)`.
DF_begin ==
    /\ prog = "daily" /\ pc = "start"
    /\ schism_files' = Min(all_files, DailyFirstFiles)
    /\ \/ /\ schism_files' = 0            \* test_files[0] raises IndexError
          /\ Fail
          /\ UNCHANGED <<target_shape, n_days, open_files>>
       \/ /\ schism_files' > 0            \* xr.open_dataset(test_files[0]) raises
          /\ Fail
          /\ UNCHANGED <<target_shape, n_days, open_files>>
       \/ /\ schism_files' > 0            \* ds0[..] raises before ds0.close()
          /\ Fail
          /\ open_files' = open_close(open_files, 1, TRUE)
          /\ UNCHANGED <<target_shape, n_days>>
       \/ /\ schism_files' > 0
          /\ open_files' = open_close(open_files, 1, FALSE)
          /\ \E lon_extent \in 0..MaxExtent, lat_extent \in 0..MaxExtent :
                target_shape' = create_target_grid(lon_extent, lat_extent, 1)
          /\ n_days' = daily_n_days(schism_files', hours_per_day)
          /\ pc' = "day"
    /\ day' = 0
    /\ UNCHANGED <<prog, all_files, max_files, hours_per_day, h, t, data,
                   ds_n_times, out, ds_missing>>
    /\ UNCHANGED tsVars /\ UNCHANGED regridVars /\ UNCHANGED gridVars
    /\ UNCHANGED boundsVars
    /\ UNCHANGED toolVars

\* One pass of `for day in range(n_days)`: the hours of the day are read and
\* regridded, then the five files of the day are written.
DF_day ==
    /\ prog = "daily" /\ pc = "day" /\ day < n_days
    /\ LET files == [i \in 1..hours_per_day |-> day * hours_per_day + i]
           date_str == StrftimeYmd(day)
           arrays == daily_arrays(files, target_shape)
           tc == Arange(day * hours_per_day, (day + 1) * hours_per_day)
       IN \/ /\ data' = arrays
             /\ out' = SaveLoop(out, Len(LetterOrder), date_str, arrays, tc, NoAttr)
             /\ h' = hours_per_day
             /\ day' = day + 1
             /\ UNCHANGED <<pc, open_files>>
          \/ /\ data' = arrays            \* to_netcdf raises at a file
             /\ \E j \in 0..(Len(LetterOrder) - 1) :
                    out' = SaveLoop(out, j, date_str, arrays, tc, NoAttr)
             /\ h' = hours_per_day
             /\ Fail
             /\ UNCHANGED <<day, open_files>>
          \/ /\ \E k \in 1..hours_per_day :  \* the k-th snapshot cannot be read
                  /\ h' = k - 1
                  /\ open_files' \in {open_files,
                                      open_close(open_files, files[k], TRUE)}
             /\ Fail
             /\ UNCHANGED <<data, out, day>>
    /\ UNCHANGED <<prog, all_files, max_files, hours_per_day, schism_files, n_days,
                   t, target_shape, ds_n_times, ds_missing>>
    /\ UNCHANGED tsVars /\ UNCHANGED regridVars /\ UNCHANGED gridVars
    /\ UNCHANGED boundsVars
    /\ UNCHANGED toolVars

\* After the loop: the mesh file, the bathymetry file and settings.json.
DF_save_mesh_and_settings ==
    /\ prog = "daily" /\ pc = "day" /\ day = n_days
    /\ LET mesh == [variables |-> {"nav_lon", "nav_lat", "x", "y"}, shape |-> target_shape]
           bathy == [variables |-> {"mbathy", "nav_lon", "nav_lat"}, shape |-> target_shape]
       IN \/ /\ out' = Put(Put(Put(out, MeshFile, mesh), BathyFile, bathy),
                           SettingsFile, MB_settings)
             /\ pc' = "done"
          \/ /\ out' \in {out, Put(out, MeshFile, mesh),
                          Put(Put(out, MeshFile, mesh), BathyFile, bathy)}
             /\ Fail
    /\ UNCHANGED <<prog, all_files, max_files, hours_per_day, schism_files, n_days,
                   day, h, t, target_shape, data, ds_n_times>>
    /\ UNCHANGED tsVars /\ UNCHANGED regridVars /\ UNCHANGED gridVars
    /\ UNCHANGED handleVars /\ UNCHANGED boundsVars
    /\ UNCHANGED toolVars

NextDaily ==
    \/ DF_begin
    \/ DF_day
    \/ DF_save_mesh_and_settings

(***************************************************************************)
(* SCHISMTimeSeriesConverter                                               *)
(***************************************************************************)
\* The time steps one file adds to the concatenation: its instants in order.
file_steps(file_info) ==
    [i \in 1..file_info.n_times |-> [file |-> file_info.file, instant |-> i - 1]]

\* xr.concat(all_datasets, dim='time') over the files of time_info.
RECURSIVE concat(_)
concat(infos) ==
    IF infos = <<>> THEN <<>>
    ELSE file_steps(Head(infos)) \o concat(Tail(infos))

TimeseriesDate == <<"timeseries">>

\* all_datasets after the first k passes of `for file_info in self.time_info`:
\* each pass opens one file and keeps it open.
all_datasets(handles, infos, k) == handles \cup {infos[i].file : i \in 1..k}

\* for ds in all_datasets: ds.close()
close_all(handles, infos) == handles \ {infos[i].file : i \in 1..Len(infos)}

\* analyze_time_structure, one pass of its loop: a file that does not exist is
\* reported and passed over.
TS_analyze_file ==
    /\ prog = "timeseries" /\ pc = "analyze" /\ t < schism_files
    /\ LET file_path == t + 1
       IN \/ /\ t' = t + 1                \* not os.path.exists(file_path): continue
             /\ UNCHANGED <<pc, time_info, ds_n_times, open_files>>
          \/ /\ Fail                      \* xr.open_dataset raises
             /\ UNCHANGED <<t, time_info, ds_n_times, open_files>>
          \/ /\ Fail                      \* ds['time'].values raises
             /\ open_files' = open_close(open_files, file_path, TRUE)
             /\ UNCHANGED <<t, time_info, ds_n_times>>
          \/ /\ \E n_times \in 1..MaxInstants :
                  /\ ds_n_times' = n_times
                  /\ time_info' = Append(time_info,
                                         [file |-> file_path, n_times |-> n_times])
             /\ open_files' = open_close(open_files, file_path, FALSE)
             /\ t' = t + 1
             /\ UNCHANGED pc
    /\ UNCHANGED <<prog, all_files, max_files, hours_per_day, schism_files, n_days,
                   day, h, target_shape, data, combined_ds, out, ds_missing>>
    /\ UNCHANGED regridVars /\ UNCHANGED gridVars
    /\ UNCHANGED boundsVars
    /\ UNCHANGED toolVars

\* load_and_concatenate_data, create_target_grid and the allocation of
\* regrid_timeseries.
TS_load_and_concatenate_data ==
    /\ prog = "timeseries" /\ pc = "analyze" /\ t = schism_files
    /\ \/ /\ time_info = <<>>             \* xr.concat([]) raises ValueError
          /\ Fail
          /\ UNCHANGED <<combined_ds, target_shape, data, open_files>>
       \/ /\ time_info # <<>>             \* xr.open_dataset raises at a file,
          /\ Fail                        \* or xr.concat after the last
          /\ \E k \in 0..Len(time_info) :
                open_files' = all_datasets(open_files, time_info, k)
          /\ UNCHANGED <<combined_ds, target_shape, data>>
       \/ /\ time_info # <<>>
          /\ open_files' = close_all(all_datasets(open_files, time_info,
                                                  Len(time_info)), time_info)
          /\ combined_ds' = concat(time_info)
          /\ \E lon_extent \in 0..MaxExtent, lat_extent \in 0..MaxExtent :
                target_shape' = create_target_grid(lon_extent, lat_extent, 1)
          /\ data' = [v \in RegridVars |->
                        ZerosArray(Len(combined_ds'), target_shape')]
          /\ pc' = "regrid"
    /\ t' = 0
    /\ UNCHANGED <<prog, all_files, max_files, hours_per_day, schism_files, n_days,
                   day, h, ds_n_times, time_info, out, ds_missing>>
    /\ UNCHANGED regridVars /\ UNCHANGED gridVars
    /\ UNCHANGED boundsVars
    /\ UNCHANGED toolVars

\* regrid_timeseries, one pass of `for t in range(n_times)`.
TS_regrid_step ==
    /\ prog = "timeseries" /\ pc = "regrid" /\ t < Len(combined_ds)
    /\ \/ /\ data' = [v \in RegridVars |->
                        SetSlice(data[v], t,
                                 Slice(combined_ds[t + 1].file,
                                       combined_ds[t + 1].instant, v))]
          /\ t' = t + 1
          /\ UNCHANGED pc
       \/ /\ Fail                          \* griddata raises
          /\ UNCHANGED <<data, t>>
    /\ UNCHANGED <<prog, all_files, max_files, hours_per_day, schism_files, n_days,
                   day, h, target_shape, ds_n_times, out>>
    /\ UNCHANGED tsVars /\ UNCHANGED regridVars /\ UNCHANGED gridVars
    /\ UNCHANGED handleVars /\ UNCHANGED boundsVars
    /\ UNCHANGED toolVars

\* save_nemo_timeseries: the five field files (time_counter without an
\* attribute), then _save_mesh_files.
TS_save_nemo_timeseries ==
    /\ prog = "timeseries" /\ pc = "regrid" /\ t = Len(combined_ds)
    /\ LET n_times == data["U"].shape[1]
           tc == hour_counter(n_times)
           mesh == [variables |-> {"glamf", "gphif"}, shape |-> target_shape]
           bathy == [variables |-> {"mbathy", "nav_lon", "nav_lat"},
                     shape |-> <<1>> \o target_shape]
           fields == SaveLoop(out, Len(LetterOrder), TimeseriesDate, data,
                              tc, NoAttr)
       IN \/ /\ out' = Put(Put(fields, MeshFile, mesh), BathyFile, bathy)
             /\ pc' = "settings"
          \/ /\ out' = Put(fields, MeshFile, mesh)
             /\ Fail
          \/ /\ \E j \in 0..Len(LetterOrder) :
                    out' = SaveLoop(out, j, TimeseriesDate, data, tc, NoAttr)
             /\ Fail
    /\ UNCHANGED <<prog, all_files, max_files, hours_per_day, schism_files, n_days,
                   day, h, t, target_shape, data, ds_n_times>>
    /\ UNCHANGED tsVars /\ UNCHANGED regridVars /\ UNCHANGED gridVars
    /\ UNCHANGED handleVars /\ UNCHANGED boundsVars
    /\ UNCHANGED toolVars

\* create_settings_file, and run_complete_workflow returns True.
TS_create_settings_file ==
    /\ prog = "timeseries" /\ pc = "settings"
    /\ \/ /\ out' = Put(out, TimeseriesSettingsFile, timeseries_settings)
          /\ pc' = "done"
       \/ /\ out' = out
          /\ Fail
    /\ UNCHANGED <<prog, all_files, max_files, hours_per_day, schism_files, n_days,
                   day, h, t, target_shape, data, ds_n_times>>
    /\ UNCHANGED tsVars /\ UNCHANGED regridVars /\ UNCHANGED gridVars
    /\ UNCHANGED handleVars /\ UNCHANGED boundsVars
    /\ UNCHANGED toolVars

NextTimeSeries ==
    \/ TS_analyze_file
    \/ TS_load_and_concatenate_data
    \/ TS_regrid_step
    \/ TS_save_nemo_timeseries
    \/ TS_create_settings_file

(***************************************************************************)
(* Regridding one variable of one time step: which nodes reach griddata.   *)
(* A float is a number or NaN.                                             *)
(***************************************************************************)
NaN == [nan |-> TRUE, v |-> 0]
Num(x) == [nan |-> FALSE, v |-> x]
isnan(x) == x.nan

Nodes == 1..NNodes
CoordValues == {NaN, Num(0), Num(1)}
NodeValues == {NaN, Num(1), Num(2)}

NoCall == [caller |-> "none", var_name |-> "none", points |-> {}, regridded |-> "none"]

\* valid_mask = ~np.isnan(vals) & ~np.isnan(lons) & ~np.isnan(lats)
valid_mask(v, lo, la) ==
    {n \in DOMAIN v : ~isnan(v[n]) /\ ~isnan(lo[n]) /\ ~isnan(la[n])}

\* MobileBayConverter.regrid_schism_data: the nodes whose points and values
\* are handed to griddata for one variable.
mobile_bay_points(v, lo, la) == valid_mask(v, lo, la)

\* SCHISMTimeSeriesConverter.regrid_timeseries: np.column_stack([self.lons,
\* self.lats]) and `data` as they are.
timeseries_points(v, lo, la) == Nodes

\* regrid_schism_data, one pass of its loop over U, V and elevation.
RG_regrid_schism_data ==
    /\ prog = "regrid" /\ pc = "call"
    /\ pc' = "returned"
    /\ \E var_name \in RegridVars, v \in [Nodes -> NodeValues] :
          /\ vals' = v
          /\ IF Cardinality(valid_mask(v, lons, lats)) = 0
             THEN griddata_call' = [caller |-> "regrid_schism_data",
                                    var_name |-> var_name,
                                    points |-> {},
                                    regridded |-> "zeros"]
             ELSE griddata_call' = [caller |-> "regrid_schism_data",
                                    var_name |-> var_name,
                                    points |-> mobile_bay_points(v, lons, lats),
                                    regridded |-> "griddata"]
    /\ UNCHANGED <<prog, all_files, max_files, hours_per_day, schism_files,
                   n_days, day, h, t, target_shape, data, ds_n_times,
                   out, lons, lats>>
    /\ UNCHANGED tsVars /\ UNCHANGED gridVars
    /\ UNCHANGED handleVars /\ UNCHANGED boundsVars
    /\ UNCHANGED toolVars

\* regrid_timeseries, one pass of its loop over U, V and elevation.
RG_regrid_timeseries ==
    /\ prog = "regrid" /\ pc = "call"
    /\ pc' = "returned"
    /\ \E var_name \in RegridVars, v \in [Nodes -> NodeValues] :
          /\ vals' = v
          /\ griddata_call' = [caller |-> "regrid_timeseries",
                               var_name |-> var_name,
                               points |-> timeseries_points(v, lons, lats),
                               regridded |-> "griddata"]
    /\ UNCHANGED <<prog, all_files, max_files, hours_per_day, schism_files,
                   n_days, day, h, t, target_shape, data, ds_n_times,
                   out, lons, lats>>
    /\ UNCHANGED tsVars /\ UNCHANGED gridVars
    /\ UNCHANGED handleVars /\ UNCHANGED boundsVars
    /\ UNCHANGED toolVars

NextRegrid == RG_regrid_schism_data \/ RG_regrid_timeseries

(***************************************************************************)
(* Regridding onto the target grid.  Coordinates and the resolution are    *)
(* whole numbers of one unit of length; a node value is NaN or a whole     *)
(* number; a regridded value is NaN or a fraction in lowest terms.         *)
(***************************************************************************)
MaxCoord == 2
MaxRes == 2
MaxSnapshots == 2

\* The node cloud: three nodes, the fewest scipy's griddata triangulates.
Cloud == {1, 2, 3}

Abs(x) == IF x < 0 THEN -x ELSE x

RECURSIVE GCD(_, _)
GCD(a, b) == IF b = 0 THEN a ELSE GCD(b, a % b)

\* The float n / d.
Frac(n, d) ==
    LET g == GCD(Abs(n), Abs(d))
        sgn == IF d < 0 THEN -1 ELSE 1
    IN [nan |-> FALSE, num |-> sgn * (n \div g), den |-> sgn * (d \div g)]

NaNCell == [nan |-> TRUE, num |-> 0, den |-> 1]
ZeroCell == Frac(0, 1)

\* a.min() and a.max() of an array of floats without NaN.
amin(a) == CHOOSE m \in {a[n].v : n \in DOMAIN a} :
               \A n \in DOMAIN a : m <= a[n].v
amax(a) == CHOOSE m \in {a[n].v : n \in DOMAIN a} :
               \A n \in DOMAIN a : m >= a[n].v

\* np.arange(lo, hi + resolution, resolution)
target_axis(lo, hi, r) == [i \in 1..ArangeLen(lo, hi, r) |-> lo + (i - 1) * r]

\* np.zeros(target_lon_2d.shape)
np_zeros(tlons, tlats) ==
    [iy \in 1..Len(tlats) |-> [ix \in 1..Len(tlons) |-> ZeroCell]]

\* Twice the signed area of the triangle of the three nodes.
Det(lo, la) ==
    (lo[2].v - lo[1].v) * (la[3].v - la[1].v)
  - (lo[3].v - lo[1].v) * (la[2].v - la[1].v)

\* Twice the signed area of the triangle of the point (px, py) and nodes b, c.
Weight(lo, la, b, c, px, py) ==
    (lo[b].v - px) * (la[c].v - py) - (lo[c].v - px) * (la[b].v - py)

\* scipy.spatial.Delaunay of the points handed over: fewer than three points,
\* or three points on one line, end in a QhullError.
Triangulable(points, lo, la) ==
    Cardinality(points) >= 3 /\ Det(lo, la) # 0

\* Mutant of Interpolate: a point on the edge of the hull counts as outside.
Interpolate_strict(lo, la, v, px, py, fill_value) ==
    LET w1 == Weight(lo, la, 2, 3, px, py)
        w2 == Weight(lo, la, 3, 1, px, py)
        w3 == Weight(lo, la, 1, 2, px, py)
        d  == Det(lo, la)
    IN IF w1 * d > 0 /\ w2 * d > 0 /\ w3 * d > 0
       THEN Frac(w1 * v[1].v + w2 * v[2].v + w3 * v[3].v, d)
       ELSE fill_value

\* LinearNDInterpolator at (px, py): the barycentric average of the node
\* values inside the triangle or on its edge (NaN as soon as one node value
\* is NaN), fill_value outside.
Interpolate(lo, la, v, px, py, fill_value) ==
    LET w1 == Weight(lo, la, 2, 3, px, py)
        w2 == Weight(lo, la, 3, 1, px, py)
        w3 == Weight(lo, la, 1, 2, px, py)
        d  == Det(lo, la)
    IN IF w1 * d >= 0 /\ w2 * d >= 0 /\ w3 * d >= 0
       THEN IF \E n \in Cloud : isnan(v[n])
            THEN NaNCell
            ELSE Frac(w1 * v[1].v + w2 * v[2].v + w3 * v[3].v, d)
       ELSE fill_value

\* griddata(points, values, xi, method='linear', fill_value).reshape(shape);
\* points is the set of nodes whose coordinates and values are handed over.
griddata(points, lo, la, v, tlons, tlats, fill_value) ==
    IF Triangulable(points, lo, la)
    THEN [raised |-> FALSE,
          grid |-> [iy \in 1..Len(tlats) |-> [ix \in 1..Len(tlons) |->
                      Interpolate(lo, la, v, tlons[ix], tlats[iy], fill_value)]]]
    ELSE [raised |-> TRUE, grid |-> <<>>]

NoValidData(var_name) == <<"No valid data for", var_name, "using zeros">>
NoValidBathymetry == <<"No valid bathymetry data, using zero depth">>

\* Mutant of regrid_masked: an empty mask is handed to griddata all the same.
regrid_unguarded(v, lo, la, tlons, tlats) ==
    griddata(valid_mask(v, lo, la), lo, la, v, tlons, tlats, ZeroCell)

\* regrid_schism_data and create_bathymetry, for one array of node values.
regrid_masked(v, lo, la, tlons, tlats) ==
    IF Cardinality(valid_mask(v, lo, la)) = 0
    THEN [raised |-> FALSE, grid |-> np_zeros(tlons, tlats)]
    ELSE griddata(valid_mask(v, lo, la), lo, la, v, tlons, tlats, ZeroCell)

\* The order of `for var_name, vals in [('U', ..), ('V', ..), ('elevation', ..)]`.
VarOrder == <<"U", "V", "elevation">>

\* regrid_schism_data after the first k passes of its loop: whether a pass
\* raised, the dict regridded_data, and the warnings logged.
RECURSIVE RegridLoop(_, _, _, _, _, _)
RegridLoop(k, fields, lo, la, tlons, tlats) ==
    IF k = 0 THEN [raised |-> FALSE, regridded_data |-> <<>>, log |-> <<>>]
    ELSE LET before == RegridLoop(k - 1, fields, lo, la, tlons, tlats)
             var_name == VarOrder[k]
             r == regrid_masked(fields[var_name], lo, la, tlons, tlats)
         IN IF before.raised THEN before
            ELSE IF r.raised
                 THEN [before EXCEPT !.raised = TRUE]
                 ELSE [raised |-> FALSE,
                       regridded_data |->
                           [n \in DOMAIN before.regridded_data \cup {var_name} |->
                               IF n = var_name THEN r.grid
                               ELSE before.regridded_data[n]],
                       log |-> IF Cardinality(valid_mask(fields[var_name], lo, la)) = 0
                               THEN Append(before.log, NoValidData(var_name))
                               ELSE before.log]

\* Mutant of mbathy_of: a cell of depth 0 is wet.
mbathy_of_strict(depth) == IF depth.num < 0 THEN 0 ELSE 1

\* mbathy = np.ones_like(..); mbathy[bathy_regridded <= 0] = 0, for one cell
\* (NaN <= 0 is False).
mbathy_of(depth) == IF ~depth.nan /\ depth.num <= 0 THEN 0 ELSE 1

\* The arrays of node values a snapshot may hold for one variable, and the
\* depths of the grid file.
NodeFields ==
    { <<NaN, NaN, NaN>>, <<Num(1), Num(2), Num(3)>>, <<NaN, Num(2), Num(3)>> }
DepthFields ==
    { <<NaN, NaN, NaN>>, <<Num(4), Num(0), Num(-2)>>, <<Num(1), NaN, Num(3)>> }

\* What a snapshot may hold for U, V and elevation.
SnapshotFields ==
    LET none == <<NaN, NaN, NaN>>
        full == <<Num(1), Num(2), Num(3)>>
        part == <<NaN, Num(2), Num(3)>>
        ds(u, v, e) == [var_name \in RegridVars |->
                          CASE var_name = "U" -> u
                            [] var_name = "V" -> v
                            [] var_name = "elevation" -> e]
    IN { ds(full, full, full), ds(none, full, full), ds(full, none, full),
         ds(none, none, none), ds(full, part, none) }

\* What a run keeps beside its position, its counter t and its grid.
runVars == <<all_files, max_files, hours_per_day, schism_files, n_days, day, h,
             data, ds_n_times, out>>

\* convert: load_schism_grid and create_target_grid.
GR_create_target_grid ==
    /\ prog = "grid" /\ pc = "start"
    /\ target_lons' = target_axis(amin(lons), amax(lons), target_resolution)
    /\ target_lats' = target_axis(amin(lats), amax(lats), target_resolution)
    /\ target_shape' = <<Len(target_lats'), Len(target_lons')>>
    /\ pc' = "bathymetry"
    /\ UNCHANGED <<prog, t, lons, lats, vals, griddata_call, target_resolution,
                   depths, bathy_regridded, regridded, warnings, mbathy>>
    /\ UNCHANGED runVars /\ UNCHANGED tsVars
    /\ UNCHANGED handleVars /\ UNCHANGED boundsVars
    /\ UNCHANGED toolVars

\* create_bathymetry
GR_create_bathymetry ==
    /\ prog = "grid" /\ pc = "bathymetry"
    /\ LET r == regrid_masked(depths, lons, lats, target_lons, target_lats)
       IN IF r.raised
          THEN /\ Fail
               /\ UNCHANGED <<bathy_regridded, warnings>>
          ELSE /\ bathy_regridded' = r.grid
               /\ warnings' = IF Cardinality(valid_mask(depths, lons, lats)) = 0
                              THEN Append(warnings, NoValidBathymetry)
                              ELSE warnings
               /\ pc' = "regrid"
    /\ UNCHANGED <<prog, t, lons, lats, vals, griddata_call, target_resolution,
                   depths, target_lons, target_lats, target_shape, regridded,
                   mbathy>>
    /\ UNCHANGED runVars /\ UNCHANGED tsVars
    /\ UNCHANGED handleVars /\ UNCHANGED boundsVars
    /\ UNCHANGED toolVars

\* regrid_schism_data for the next snapshot of convert's loop; vals is what
\* the snapshot holds for U, V and elevation.
GR_regrid_schism_data ==
    /\ prog = "grid" /\ pc = "regrid" /\ t < MaxSnapshots
    /\ \/ /\ \E fields \in SnapshotFields :
               LET r == RegridLoop(Len(VarOrder), fields, lons, lats,
                                   target_lons, target_lats)
               IN /\ vals' = fields
                  /\ warnings' = warnings \o r.log
                  /\ IF r.raised
                     THEN /\ Fail
                          /\ UNCHANGED <<regridded, t>>
                     ELSE /\ regridded' = r.regridded_data
                          /\ t' = t + 1
                          /\ pc' = "regrid"
       \/ /\ Fail                        \* the snapshot lacks a variable
          /\ vals' = <<>>
          /\ UNCHANGED <<warnings, regridded, t>>
    /\ UNCHANGED <<prog, lons, lats, griddata_call, target_resolution, depths,
                   target_lons, target_lats, target_shape, bathy_regridded,
                   mbathy>>
    /\ UNCHANGED runVars /\ UNCHANGED tsVars
    /\ UNCHANGED handleVars /\ UNCHANGED boundsVars
    /\ UNCHANGED toolVars

\* save_mesh_files: mbathy of the bathymetry file.
GR_save_mesh_files ==
    /\ prog = "grid" /\ pc = "regrid" /\ t = MaxSnapshots
    /\ mbathy' = [iy \in 1..Len(target_lats) |-> [ix \in 1..Len(target_lons) |->
                     mbathy_of(bathy_regridded[iy][ix])]]
    /\ pc' = "done"
    /\ UNCHANGED <<prog, t, lons, lats, vals, griddata_call, target_resolution,
                   depths, target_lons, target_lats, target_shape,
                   bathy_regridded, regridded, warnings>>
    /\ UNCHANGED runVars /\ UNCHANGED tsVars
    /\ UNCHANGED handleVars /\ UNCHANGED boundsVars
    /\ UNCHANGED toolVars

(***************************************************************************)
(* SCHISMToNEMORegridder (schism_to_nemo_regridder.py)                     *)
(***************************************************************************)
\* lon_bounds / lat_bounds of create_target_grid: <<>> stands for None.
BoundsArgs == {<<>>, <<0, 1>>}

\* The first Z-levels of create_target_grid, in tenths of a metre; the
\* regridder keeps the first target_levels of them.
TargetDepthLevels == <<5, 15, 26, 38, 51, 64>>

\* create_target_grid(lon_bounds, lat_bounds)
RV_create_target_grid ==
    /\ prog = "regridder" /\ pc = "start"
    /\ \E target_levels \in 0..MaxLevels :
          target_depths' = Take(TargetDepthLevels, target_levels)
    /\ \E lon_arg \in BoundsArgs, lat_arg \in BoundsArgs :
          LET lon_min == IF lon_arg = <<>> THEN amin(lons) ELSE lon_arg[1]
              lon_max == IF lon_arg = <<>> THEN amax(lons) ELSE lon_arg[2]
              lat_min == IF lat_arg = <<>> THEN amin(lats) ELSE lat_arg[1]
              lat_max == IF lat_arg = <<>> THEN amax(lats) ELSE lat_arg[2]
          IN /\ target_lons' = target_axis(lon_min, lon_max, target_resolution)
             /\ target_lats' = target_axis(lat_min, lat_max, target_resolution)
    /\ target_shape' = <<Len(target_lats'), Len(target_lons')>>
    /\ pc' = "regrid"
    /\ UNCHANGED <<prog, t, lons, lats, vals, griddata_call, target_resolution,
                   depths, bathy_regridded, regridded, warnings, mbathy>>
    /\ UNCHANGED runVars /\ UNCHANGED tsVars
    /\ UNCHANGED handleVars /\ UNCHANGED boundsVars
    /\ UNCHANGED serviceVars

\* bathymetry_depths > depth, for one cell and one level: NaN > depth is False.
deeper(cell, level) == ~cell.nan /\ 10 * cell.num > level * cell.den

\* Mutant of mbathy_levels: only the first level is looked at.
mbathy_first_level(cell, levels, i) ==
    IF i > 0 /\ deeper(cell, levels[1]) THEN 1 ELSE 0

RECURSIVE mbathy_levels(_, _, _)
\* mbathy of one cell after the first i passes of `for i, depth in
\* enumerate(self.target_depths)`: each pass overwrites with i + 1 where the
\* cell is deeper than the level.
mbathy_levels(cell, levels, i) ==
    IF i = 0 THEN 0
    ELSE IF deeper(cell, levels[i]) THEN i
    ELSE mbathy_levels(cell, levels, i - 1)

\* create_nemo_bathymetry(), once the target grid is there
RV_create_nemo_bathymetry ==
    /\ prog = "regridder" /\ pc = "regrid"
    /\ LET r == griddata(Cloud, lons, lats, depths, target_lons, target_lats,
                         ZeroCell)
       IN IF r.raised
          THEN /\ Fail
               /\ UNCHANGED <<bathy_regridded, mbathy>>
          ELSE /\ bathy_regridded' = r.grid
               /\ mbathy' = [iy \in 1..Len(target_lats) |->
                               [ix \in 1..Len(target_lons) |->
                                   mbathy_levels(r.grid[iy][ix], target_depths,
                                                 Len(target_depths))]]
               /\ pc' = "regrid"
    /\ UNCHANGED <<prog, t, lons, lats, vals, griddata_call, target_resolution,
                   depths, target_lons, target_lats, target_shape, regridded,
                   warnings>>
    /\ UNCHANGED runVars /\ UNCHANGED tsVars
    /\ UNCHANGED handleVars /\ UNCHANGED boundsVars
    /\ UNCHANGED toolVars

\* What regrid_variable returns: an array, or None when no branch returns.
Returned(grid) == [kind |-> "array", grid |-> grid]
ReturnedNone == [kind |-> "None", grid |-> <<>>]

\* regrid_variable(schism_data, variable_name, time_index): in_data tells
\* whether variable_name is in schism_data.variables, ndims is
\* len(var_data.dims) after isel(time=time_index).  Of a 3-D variable each
\* level is regridded like a 2-D one; the array of one level stands for all.
RV_regrid_variable ==
    /\ prog = "regridder" /\ pc = "regrid"
    /\ \E in_data \in BOOLEAN, ndims \in 1..3, field \in NodeFields,
          variable_name \in SourceVars :
          LET r == griddata(Cloud, lons, lats, field, target_lons, target_lats,
                            NaNCell)
          IN /\ vals' = [in_data |-> in_data, ndims |-> ndims, values |-> field]
             /\ ds_missing' = IF in_data THEN {} ELSE {variable_name}
             /\ IF ~in_data
                THEN /\ Fail             \* raise ValueError
                     /\ UNCHANGED regridded
                ELSE IF ndims = 1
                THEN /\ regridded' = ReturnedNone
                     /\ pc' = "returned"
                ELSE IF r.raised
                THEN /\ Fail
                     /\ UNCHANGED regridded
                ELSE /\ regridded' = Returned(r.grid)
                     /\ pc' = "returned"
    /\ UNCHANGED <<prog, t, lons, lats, griddata_call, target_resolution, depths,
                   target_lons, target_lats, target_shape, bathy_regridded,
                   warnings, mbathy, open_files>>
    /\ UNCHANGED runVars /\ UNCHANGED tsVars
    /\ UNCHANGED boundsVars
    /\ UNCHANGED toolVars

\* SCHISMToNEMORegridder: the target grid, then one variable.
NextRegridder ==
    \/ RV_create_target_grid
    \/ RV_regrid_variable
    \/ RV_create_nemo_bathymetry

NextGrid ==
    \/ GR_create_target_grid
    \/ GR_create_bathymetry
    \/ GR_regrid_schism_data
    \/ GR_save_mesh_files
    \/ RV_create_target_grid
    \/ RV_regrid_variable
    \/ RV_create_nemo_bathymetry

(***************************************************************************)
(* create_target_grid in floating point.  A float is a whole number of     *)
(* units of 2^-FracBits, held with MantissaBits significant bits and       *)
(* rounded to the nearest, ties to even (numpy's float64 is the same       *)
(* format with 53 significant bits).                                       *)
(***************************************************************************)
MantissaBits == 5
FracBits == 7
MaxLon == 4

RECURSIVE Pow2(_)
Pow2(n) == IF n = 0 THEN 1 ELSE 2 * Pow2(n - 1)

\* The float 1.0
One == Pow2(FracBits)

\* The number of bits of the whole number k.
RECURSIVE BitLen(_)
BitLen(k) == IF k = 0 THEN 0 ELSE 1 + BitLen(k \div 2)

\* n / d rounded to a whole number, ties to even.
RoundHalfEven(n, d) ==
    LET k == n \div d
        rem == n - k * d
    IN IF 2 * rem < d THEN k
       ELSE IF 2 * rem > d THEN k + 1
       ELSE IF k % 2 = 0 THEN k ELSE k + 1

\* The float nearest to n / d units (n >= 0, d > 0).
RoundUnits(n, d) ==
    LET quantum == IF BitLen(n \div d) <= MantissaBits THEN 1
                   ELSE Pow2(BitLen(n \div d) - MantissaBits)
    IN RoundHalfEven(n, d * quantum) * quantum

\* a + b, a - b, a * b and a / b of two floats.
fl_add(a, b) == RoundUnits(a + b, 1)
fl_sub(a, b) == RoundUnits(a - b, 1)
fl_mul(a, b) == RoundUnits(a * b, One)
fl_div(a, b) == RoundUnits(a * One, b)

\* The float of the whole number i, and math.ceil of a float.
fl_int(i) == RoundUnits(i * One, 1)
fl_ceil(a) == (a + One - 1) \div One

\* np.arange(start, stop, step): ceil((stop - start) / step) values, the
\* i-th being start + i * delta with delta = (start + step) - start.
np_arange(start, stop, step) ==
    LET length == fl_ceil(fl_div(fl_sub(stop, start), step))
        delta == fl_sub(fl_add(start, step), start)
    IN [i \in 1..length |-> fl_add(start, fl_mul(fl_int(i - 1), delta))]

\* np.arange(lon_min, lon_max + self.target_resolution, self.target_resolution)
float_axis(lo, hi, r) == np_arange(lo, fl_add(hi, r), r)

\* The floats from lo to hi.
Floats(lo, hi) == {x \in lo..hi : RoundUnits(x, 1) = x}

\* MobileBayConverter.create_target_grid(lons, lats) on floats.
FL_create_target_grid ==
    /\ prog = "float_grid" /\ pc = "start"
    /\ target_lons' = float_axis(amin(lons), amax(lons), target_resolution)
    /\ target_lats' = float_axis(amin(lats), amax(lats), target_resolution)
    /\ target_shape' = <<Len(target_lats'), Len(target_lons')>>
    /\ pc' = "done"
    /\ UNCHANGED <<prog, t, lons, lats, vals, griddata_call, target_resolution,
                   depths, bathy_regridded, regridded, warnings, mbathy>>
    /\ UNCHANGED runVars /\ UNCHANGED tsVars
    /\ UNCHANGED handleVars /\ UNCHANGED boundsVars
    /\ UNCHANGED toolVars

\* SCHISMToNEMORegridder.create_target_grid(lon_bounds, lat_bounds) on floats.
FL_regridder_create_target_grid ==
    /\ prog = "float_regridder" /\ pc = "start"
    /\ \E lon_arg \in {<<>>, <<amin(lons), amax(lons)>>},
          lat_arg \in {<<>>, <<amin(lats), amax(lats)>>} :
          LET lon_min == IF lon_arg = <<>> THEN amin(lons) ELSE lon_arg[1]
              lon_max == IF lon_arg = <<>> THEN amax(lons) ELSE lon_arg[2]
              lat_min == IF lat_arg = <<>> THEN amin(lats) ELSE lat_arg[1]
              lat_max == IF lat_arg = <<>> THEN amax(lats) ELSE lat_arg[2]
          IN /\ target_lons' = float_axis(lon_min, lon_max, target_resolution)
             /\ target_lats' = float_axis(lat_min, lat_max, target_resolution)
    /\ target_shape' = <<Len(target_lats'), Len(target_lons')>>
    /\ pc' = "done"
    /\ UNCHANGED <<prog, t, lons, lats, vals, griddata_call, target_resolution,
                   depths, bathy_regridded, regridded, warnings, mbathy>>
    /\ UNCHANGED runVars /\ UNCHANGED tsVars
    /\ UNCHANGED handleVars /\ UNCHANGED boundsVars
    /\ UNCHANGED toolVars

NextFloat == FL_create_target_grid \/ FL_regridder_create_target_grid

(***************************************************************************)
(* Spatial subsetting: main of schism_to_plasticparcels_complete.py and    *)
(* main of schism_timeseries_to_plasticparcels.py.  An array over the      *)
(* nodes is a function of the node numbers; a masked array keeps the       *)
(* numbers of the nodes it holds.                                          *)
(***************************************************************************)
\* --lon_bounds / --lat_bounds as parsed: <<>> for None, one value for a
\* string parse_bounds rejects, two values for "min,max"; the values reach
\* beyond the node cloud.
BoundsStrings ==
    {<<>>, <<0>>} \cup
    {<<lo, hi>> : lo \in 0..(MaxCoord + 2), hi \in 0..(MaxCoord + 2)}

\* self.spatial_mask = None
NoMask == [given |-> FALSE, nodes |-> {}]

\* parse_bounds raises ValueError("Bounds must have exactly 2 values")
Malformed(b) == b # <<>> /\ Len(b) # 2

\* lon_bounds and lon_bounds[0] >= lon_bounds[1]
Inverted(b) == b # <<>> /\ b[1] >= b[2]

\* spatial_mask = (all_lons >= lon_min) & (all_lons <= lon_max) &
\*                (all_lats >= lat_min) & (all_lats <= lat_max)
bounds_mask(all_lons, all_lats, lon_b, lat_b) ==
    LET lon_min == IF lon_b # <<>> THEN lon_b[1] ELSE amin(all_lons)
        lon_max == IF lon_b # <<>> THEN lon_b[2] ELSE amax(all_lons)
        lat_min == IF lat_b # <<>> THEN lat_b[1] ELSE amin(all_lats)
        lat_max == IF lat_b # <<>> THEN lat_b[2] ELSE amax(all_lats)
    IN [given |-> TRUE,
        nodes |-> {n \in DOMAIN all_lons :
                     /\ all_lons[n].v >= lon_min /\ all_lons[n].v <= lon_max
                     /\ all_lats[n].v >= lat_min /\ all_lats[n].v <= lat_max}]

\* The mask load_schism_data / load_and_concatenate_data leaves in
\* self.spatial_mask: None without bounds.
load_mask(all_lons, all_lats, lon_b, lat_b) ==
    IF lon_b # <<>> \/ lat_b # <<>>
    THEN bounds_mask(all_lons, all_lats, lon_b, lat_b)
    ELSE NoMask

\* Mutant of apply_mask: the array is used whole.
apply_mask_none(a, mask) == a

\* a[spatial_mask] if a mask was derived, a otherwise.
apply_mask(a, mask) ==
    IF mask.given THEN [n \in DOMAIN a \cap mask.nodes |-> a[n]] ELSE a

\* self.lons, self.lats: the coordinates of the nodes kept.
Sub(a, nodes) == [n \in nodes |-> a[n]]

\* ds[name][t, :].values: one value per node.
node_values(name, tt, all_lons) == [n \in DOMAIN all_lons |-> <<name, tt, n>>]

\* Delaunay needs three nodes that are not on one line (QhullError otherwise).
HasTriangle(nodes, lo, la) ==
    \E a \in nodes, b \in nodes, c \in nodes :
        (lo[b].v - lo[a].v) * (la[c].v - la[a].v)
            - (lo[c].v - lo[a].v) * (la[b].v - la[a].v) # 0

\* One call of griddata: the nodes of points and the nodes of values.
Call(name, tt, points, values) ==
    [var_name |-> name, t |-> tt, points |-> points, values |-> values]

\* The calls of one time step: `for var_name, data in [('U', ..), ..]`.
step_calls(tt, nodes, mask, all_lons) ==
    {Call(VarOrder[k], tt, nodes,
          DOMAIN apply_mask(node_values(VarOrder[k], tt, all_lons), mask)) :
        k \in 1..Len(VarOrder)}

\* griddata(.., values=self.depths, ..)
bathymetry_call(nodes) == Call("bathymetry", 0, nodes, nodes)

\* The arrays regrid_timeseries / regrid_variables leave in regridded_data.
regridded_steps(steps, shape) ==
    [v \in RegridVars |->
        [shape |-> <<Len(steps)>> \o shape,
         slices |-> [i \in 1..Len(steps) |-> Slice(steps[i].file, steps[i].instant, v)],
         writes |-> [i \in 1..Len(steps) |-> 1]]]

\* The "ocean" part of the descriptor both create_settings_file write.
ocean_settings(filename_style, allow_time_extrapolation) ==
    [filename_style |-> filename_style,
     ocean_mesh |-> "ocean_mesh_hgr.nc",
     bathymetry_mesh |-> "bathymetry_mesh_zgr.nc",
     allow_time_extrapolation |-> allow_time_extrapolation,
     variables |-> {"vozocrtx", "vomecrty", "vovecrtz", "votemper", "vosaline"},
     lon |-> "nav_lon",
     lat |-> "nav_lat",
     time |-> "time_counter",
     bathymetry_variable |-> "mbathy",
     bathymetry_lon |-> "nav_lon",
     bathymetry_lat |-> "nav_lat"]

\* mesh_ds and bathy_ds of save_nemo_format and _save_mesh_files.
glamf_mesh(shape) == [variables |-> {"glamf", "gphif"}, shape |-> shape]
mbathy_mesh(shape) ==
    [variables |-> {"mbathy", "nav_lon", "nav_lat"}, shape |-> <<1>> \o shape]

\* os.path.basename(self.schism_file).split('.')[0]
BaseName == <<"schism_file">>
CompleteSettingsFile == FileName("settings.json", BaseName)
PlotFile == FileName("trajectories.png", BaseName)

runIdle == <<max_files, hours_per_day, n_days, day, h, ds_n_times>>
gridIdle == <<lons, lats, vals, griddata_call, target_resolution, depths,
              bathy_regridded, regridded, warnings, mbathy>>

\* create_target_grid of both classes: the extent of self.lons and self.lats.
SB_create_target_grid(raise) ==
    IF subset = {}
    THEN /\ raise                        \* min of a zero-size array: ValueError
         /\ UNCHANGED <<extent_nodes, target_lons, target_lats, target_shape>>
    ELSE /\ extent_nodes' = subset
         /\ target_lons' = target_axis(amin(Sub(lons, subset)),
                                       amax(Sub(lons, subset)), target_resolution)
         /\ target_lats' = target_axis(amin(Sub(lats, subset)),
                                       amax(Sub(lats, subset)), target_resolution)
         /\ target_shape' = <<Len(target_lats'), Len(target_lons')>>
         /\ pc' = "regrid"

\* main of schism_timeseries_to_plasticparcels.py up to run_complete_workflow.
TSB_main ==
    /\ prog = "timeseries_main" /\ pc = "start"
    /\ IF Malformed(lon_bounds) \/ Malformed(lat_bounds)
       THEN Fail                         \* parse_bounds raises: return False
       ELSE pc' = "analyze"
    /\ UNCHANGED <<prog, all_files, schism_files, t, target_shape, data, out,
                   target_lons, target_lats>>
    /\ UNCHANGED runIdle /\ UNCHANGED gridIdle /\ UNCHANGED tsVars
    /\ UNCHANGED handleVars /\ UNCHANGED boundsVars
    /\ UNCHANGED toolVars

\* analyze_time_structure and load_and_concatenate_data: every file is opened
\* once by each; a file that cannot be opened ends the run.
TSB_load_and_concatenate_data ==
    /\ prog = "timeseries_main" /\ pc = "analyze"
    /\ LET n == schism_files
           infos == [i \in 1..n |-> [file |-> i, n_times |-> 1]]
           mask == load_mask(lons, lats, lon_bounds, lat_bounds)
       IN \/ /\ opened' = opened + 2 * n
             /\ open_files' = close_all(all_datasets(open_files, infos, n), infos)
             /\ time_info' = infos
             /\ combined_ds' = concat(infos)
             /\ spatial_mask' = mask
             /\ subset' = DOMAIN apply_mask(lons, mask)
             /\ pc' = "grid"
          \/ /\ \E k \in 0..(n - 1) :        \* analyze_time_structure: open raises
                  opened' = opened + k
             /\ Fail
             /\ UNCHANGED <<open_files, time_info, combined_ds, spatial_mask, subset>>
          \/ /\ \E k \in 0..(n - 1) :        \* load_and_concatenate_data: open raises
                  /\ opened' = opened + n + k
                  /\ open_files' = all_datasets(open_files, infos, k)
             /\ time_info' = infos
             /\ Fail
             /\ UNCHANGED <<combined_ds, spatial_mask, subset>>
    /\ UNCHANGED <<prog, all_files, schism_files, t, target_shape, data, out,
                   target_lons, target_lats, ds_missing, lon_bounds, lat_bounds,
                   griddata_calls, extent_nodes>>
    /\ UNCHANGED runIdle /\ UNCHANGED gridIdle
    /\ UNCHANGED toolVars

TSB_create_target_grid ==
    /\ prog = "timeseries_main" /\ pc = "grid"
    /\ SB_create_target_grid(Fail)
    /\ UNCHANGED <<prog, all_files, schism_files, t, data, out, lon_bounds,
                   lat_bounds, spatial_mask, subset, opened, griddata_calls>>
    /\ UNCHANGED runIdle /\ UNCHANGED gridIdle /\ UNCHANGED tsVars
    /\ UNCHANGED handleVars
    /\ UNCHANGED toolVars

\* regrid_timeseries: three calls of griddata for each time step, then one
\* for the bathymetry; the first call raises when the nodes kept span no
\* triangle.
TSB_regrid_timeseries ==
    /\ prog = "timeseries_main" /\ pc = "regrid"
    /\ LET n_times == Len(combined_ds)
       IN IF HasTriangle(subset, lons, lats)
          THEN /\ griddata_calls' = griddata_calls
                      \cup UNION {step_calls(tt, subset, spatial_mask, lons) :
                                     tt \in 0..(n_times - 1)}
                      \cup {bathymetry_call(subset)}
               /\ data' = regridded_steps(combined_ds, target_shape)
               /\ t' = n_times
               /\ pc' = "save"
          ELSE /\ griddata_calls' = griddata_calls \cup
                      {Call("U", 0, subset,
                            DOMAIN apply_mask(node_values("U", 0, lons), spatial_mask))}
               /\ Fail
               /\ UNCHANGED <<data, t>>
    /\ UNCHANGED <<prog, all_files, schism_files, target_shape, out, target_lons,
                   target_lats, lon_bounds, lat_bounds, spatial_mask, subset,
                   opened, extent_nodes>>
    /\ UNCHANGED runIdle /\ UNCHANGED gridIdle /\ UNCHANGED tsVars
    /\ UNCHANGED handleVars
    /\ UNCHANGED toolVars

\* save_nemo_timeseries and _save_mesh_files.
TSB_save_nemo_timeseries ==
    /\ prog = "timeseries_main" /\ pc = "save"
    /\ LET n_times == data["U"].shape[1]
           tc == hour_counter(n_times)
           fields == SaveLoop(out, Len(LetterOrder), TimeseriesDate, data,
                              tc, NoAttr)
       IN \/ /\ out' = Put(Put(fields, MeshFile, glamf_mesh(target_shape)),
                           BathyFile, mbathy_mesh(target_shape))
             /\ pc' = "settings"
          \/ /\ out' = Put(fields, MeshFile, glamf_mesh(target_shape))
             /\ Fail
          \/ /\ \E j \in 0..Len(LetterOrder) :
                    out' = SaveLoop(out, j, TimeseriesDate, data, tc, NoAttr)
             /\ Fail
    /\ UNCHANGED <<prog, all_files, schism_files, t, target_shape, data,
                   target_lons, target_lats>>
    /\ UNCHANGED runIdle /\ UNCHANGED gridIdle /\ UNCHANGED tsVars
    /\ UNCHANGED handleVars /\ UNCHANGED boundsVars
    /\ UNCHANGED toolVars

\* create_settings_file, and run_complete_workflow returns True.
TSB_create_settings_file ==
    /\ prog = "timeseries_main" /\ pc = "settings"
    /\ \/ /\ out' = Put(out, TimeseriesSettingsFile,
                        ocean_settings("timeseries", FALSE))
          /\ pc' = "done"
       \/ /\ out' = out
          /\ Fail
    /\ UNCHANGED <<prog, all_files, schism_files, t, target_shape, data,
                   target_lons, target_lats>>
    /\ UNCHANGED runIdle /\ UNCHANGED gridIdle /\ UNCHANGED tsVars
    /\ UNCHANGED handleVars /\ UNCHANGED boundsVars
    /\ UNCHANGED toolVars

NextTimeSeriesMain ==
    \/ TSB_main
    \/ TSB_load_and_concatenate_data
    \/ TSB_create_target_grid
    \/ TSB_regrid_timeseries
    \/ TSB_save_nemo_timeseries
    \/ TSB_create_settings_file

\* run_complete_workflow of SCHISMToPlasticParcels returns False: its finally
\* closes self.ds.
CP_Fail == pc' = "failed" /\ open_files' = {}

\* main of schism_to_plasticparcels_complete.py up to run_complete_workflow:
\* all_files tells whether args.schism_file exists.
CP_main ==
    /\ prog = "complete_main" /\ pc = "start"
    /\ IF all_files = 0
       THEN Fail                         \* not os.path.exists(args.schism_file)
       ELSE IF Malformed(lon_bounds) \/ Malformed(lat_bounds)
       THEN Fail                         \* parse_bounds raises
       ELSE IF Inverted(lon_bounds) \/ Inverted(lat_bounds)
       THEN Fail                         \* "Invalid longitude/latitude bounds"
       ELSE pc' = "load"
    /\ UNCHANGED <<prog, all_files, schism_files, t, target_shape, data, out,
                   target_lons, target_lats>>
    /\ UNCHANGED runIdle /\ UNCHANGED gridIdle /\ UNCHANGED tsVars
    /\ UNCHANGED handleVars /\ UNCHANGED boundsVars
    /\ UNCHANGED toolVars

\* load_schism_data
CP_load_schism_data ==
    /\ prog = "complete_main" /\ pc = "load"
    /\ LET mask == load_mask(lons, lats, lon_bounds, lat_bounds)
       IN \/ /\ opened' = opened + 1
             /\ spatial_mask' = mask
             /\ subset' = DOMAIN apply_mask(lons, mask)
             /\ IF mask.given /\ subset' = {}
                THEN CP_Fail             \* raise ValueError("No SCHISM nodes ..")
                ELSE pc' = "grid" /\ open_files' = {1}
          \/ /\ CP_Fail                  \* xr.open_dataset raises
             /\ UNCHANGED <<opened, spatial_mask, subset>>
    /\ UNCHANGED <<prog, all_files, schism_files, t, target_shape, data, out,
                   target_lons, target_lats, ds_missing, lon_bounds, lat_bounds,
                   griddata_calls, extent_nodes>>
    /\ UNCHANGED runIdle /\ UNCHANGED gridIdle /\ UNCHANGED tsVars
    /\ UNCHANGED toolVars

CP_create_target_grid ==
    /\ prog = "complete_main" /\ pc = "grid"
    /\ SB_create_target_grid(pc' = "failed")
    /\ open_files' = IF pc' = "failed" THEN {} ELSE open_files
    /\ UNCHANGED <<prog, all_files, schism_files, t, data, out, lon_bounds,
                   lat_bounds, spatial_mask, subset, opened, griddata_calls,
                   ds_missing>>
    /\ UNCHANGED runIdle /\ UNCHANGED gridIdle /\ UNCHANGED tsVars
    /\ UNCHANGED toolVars

\* regrid_variables: U, V, elevation of the first time step, the bathymetry.
CP_regrid_variables ==
    /\ prog = "complete_main" /\ pc = "regrid"
    /\ IF HasTriangle(subset, lons, lats)
       THEN /\ griddata_calls' = griddata_calls
                   \cup step_calls(0, subset, spatial_mask, lons)
                   \cup {bathymetry_call(subset)}
            /\ data' = regridded_steps(<<[file |-> 1, instant |-> 0]>>, target_shape)
            /\ pc' = "save"
            /\ UNCHANGED open_files
       ELSE /\ griddata_calls' = griddata_calls \cup
                   {Call("U", 0, subset,
                         DOMAIN apply_mask(node_values("U", 0, lons), spatial_mask))}
            /\ CP_Fail
            /\ UNCHANGED data
    /\ UNCHANGED <<prog, all_files, schism_files, t, target_shape, out, target_lons,
                   target_lats, lon_bounds, lat_bounds, spatial_mask, subset,
                   opened, extent_nodes, ds_missing>>
    /\ UNCHANGED runIdle /\ UNCHANGED gridIdle /\ UNCHANGED tsVars
    /\ UNCHANGED toolVars

\* save_nemo_format: the five field files, the mesh file, the bathymetry file.
CP_save_nemo_format ==
    /\ prog = "complete_main" /\ pc = "save"
    /\ LET tc == <<0>>
           fields == SaveLoop(out, Len(LetterOrder), BaseName, data, tc, NoAttr)
       IN \/ /\ out' = Put(Put(fields, MeshFile, glamf_mesh(target_shape)),
                           BathyFile, mbathy_mesh(target_shape))
             /\ pc' = "settings"
             /\ UNCHANGED open_files
          \/ /\ out' = Put(fields, MeshFile, glamf_mesh(target_shape))
             /\ CP_Fail
          \/ /\ \E j \in 0..Len(LetterOrder) :
                    out' = SaveLoop(out, j, BaseName, data, tc, NoAttr)
             /\ CP_Fail
    /\ UNCHANGED <<prog, all_files, schism_files, t, target_shape, data,
                   target_lons, target_lats, ds_missing>>
    /\ UNCHANGED runIdle /\ UNCHANGED gridIdle /\ UNCHANGED tsVars
    /\ UNCHANGED boundsVars
    /\ UNCHANGED toolVars

CP_create_settings_file ==
    /\ prog = "complete_main" /\ pc = "settings"
    /\ \/ /\ out' = Put(out, CompleteSettingsFile, ocean_settings(BaseName, TRUE))
          /\ pc' = "simulate"
          /\ UNCHANGED open_files
       \/ /\ out' = out
          /\ CP_Fail
    /\ UNCHANGED <<prog, all_files, schism_files, t, target_shape, data,
                   target_lons, target_lats, ds_missing>>
    /\ UNCHANGED runIdle /\ UNCHANGED gridIdle /\ UNCHANGED tsVars
    /\ UNCHANGED boundsVars
    /\ UNCHANGED toolVars

\* run_simulation and create_visualization, then the finally of
\* run_complete_workflow.
CP_run_simulation ==
    /\ prog = "complete_main" /\ pc = "simulate"
    /\ \/ /\ out' = Put(out, PlotFile, [variables |-> {}, shape |-> <<>>])
          /\ pc' = "done"
          /\ open_files' = {}
       \/ /\ out' = out                  \* parcels or matplotlib raises
          /\ CP_Fail
    /\ UNCHANGED <<prog, all_files, schism_files, t, target_shape, data,
                   target_lons, target_lats, ds_missing>>
    /\ UNCHANGED runIdle /\ UNCHANGED gridIdle /\ UNCHANGED tsVars
    /\ UNCHANGED boundsVars
    /\ UNCHANGED toolVars

NextComplete ==
    \/ CP_main
    \/ CP_load_schism_data
    \/ CP_create_target_grid
    \/ CP_regrid_variables
    \/ CP_save_nemo_format
    \/ CP_create_settings_file
    \/ CP_run_simulation

NextBounds == NextTimeSeriesMain \/ NextComplete

(***************************************************************************)
(* The file lists: MobileBayConverter.get_schism_files and                 *)
(* SCHISMTimeSeriesConverter._parse_file_input.  A path is the sequence of *)
(* the character codes that follow the common prefix ".../out2d_".         *)
(***************************************************************************)
\* Everything a converter run keeps: the file lists leave it alone.
converterVars == <<t, target_shape, runVars, regridVars, tsVars, gridVars,
                   handleVars, boundsVars>>

RECURSIVE DecimalDigits(_)
\* str(n): the codes of the decimal digits of n.
DecimalDigits(n) ==
    IF n < 10 THEN <<48 + n>> ELSE Append(DecimalDigits(n \div 10), 48 + (n % 10))

\* The path of snapshot n: its digits, then ".nc".
SnapshotPath(n) == DecimalDigits(n) \o <<46, 110, 99>>

RECURSIVE ParseDigits(_, _, _)
\* int() of the digits of path from position i on, acc being the value so far.
ParseDigits(path, i, acc) ==
    IF i > Len(path) \/ path[i] < 48 \/ path[i] > 57
    THEN acc
    ELSE ParseDigits(path, i + 1, 10 * acc + (path[i] - 48))

\* extract_number: int(match.group(1)) of r'out2d_(\d+)\.nc'.
extract_number(filename) == ParseDigits(filename, 1, 0)

RECURSIVE StrLess(_, _, _)
\* a < b for two Python strings, compared from position i on.
StrLess(a, b, i) ==
    IF i > Len(b) THEN FALSE
    ELSE IF i > Len(a) THEN TRUE
    ELSE IF a[i] # b[i] THEN a[i] < b[i]
    ELSE StrLess(a, b, i + 1)

\* sorted(files): the strings in ascending order.
sorted(files) ==
    [i \in 1..Cardinality(files) |->
        CHOOSE f \in files :
            Cardinality({g \in files : StrLess(g, f, 1)}) = i - 1]

\* sorted(files, key=extract_number)
sorted_by_number(files) ==
    [i \in 1..Cardinality(files) |->
        CHOOSE f \in files :
            Cardinality({g \in files : extract_number(g) < extract_number(f)}) = i - 1]

\* glob.glob(pattern): the paths of the files the directory holds.
glob(numbers) == {SnapshotPath(n) : n \in numbers}

\* What a caller may hand to _parse_file_input beside a pattern: a list or a
\* comma-separated string of the paths in an order of its own, or one path.
FileInputs(numbers) ==
    {[kind |-> "pattern", files |-> <<>>]}
      \cup {[kind |-> k, files |-> sorted_by_number(glob(numbers))] : k \in {"list", "comma"}}
      \cup {[kind |-> "list", files |-> sorted(glob(numbers))]}
      \cup {[kind |-> "single", files |-> <<SnapshotPath(n)>>] : n \in numbers}

\* MobileBayConverter.get_schism_files(max_files)
MB_get_schism_files ==
    /\ prog = "get_schism_files" /\ pc = "start"
    /\ LET all == sorted_by_number(glob(listing))
       IN sorted_files' = IF max_files # 0 THEN Take(all, max_files) ELSE all
    /\ pc' = "returned"
    /\ UNCHANGED <<prog, target_depths, listing, file_input, work_dirs, datasets,
                   run, disk, trajectories, features, request, tmp_files, response>>
    /\ UNCHANGED converterVars

\* SCHISMTimeSeriesConverter._parse_file_input(file_input)
TS_parse_file_input ==
    /\ prog = "parse_file_input" /\ pc = "start"
    /\ \E input \in FileInputs(listing) :
          /\ file_input' = input
          /\ IF input.kind = "pattern"
             THEN LET files == sorted(glob(listing))
                  IN IF files = <<>>
                     THEN /\ Fail        \* raise ValueError
                          /\ UNCHANGED sorted_files
                     ELSE /\ sorted_files' = files
                          /\ pc' = "returned"
             ELSE /\ sorted_files' = input.files
                  /\ pc' = "returned"
    /\ UNCHANGED <<prog, target_depths, listing, work_dirs, datasets,
                   run, disk, trajectories, features, request, tmp_files, response>>
    /\ UNCHANGED converterVars

NextSort == MB_get_schism_files \/ TS_parse_file_input

(***************************************************************************)
(* aggregate_mobile_timeseries (aggregate_mobile_timeseries.py).  A work   *)
(* directory mobile_file_<n>_work is known by n and by the files it holds: *)
(* the letter X stands for X_nemo.nc.                                      *)
(***************************************************************************)
MeshNames == {"ocean_mesh_hgr.nc", "bathymetry_mesh_zgr.nc"}

\* What a work directory may hold.
WorkDirContents ==
    { VarLetters \cup MeshNames,
      (VarLetters \ {"W"}) \cup MeshNames,
      (VarLetters \ {"U"}) \cup {"bathymetry_mesh_zgr.nc"},
      VarLetters \cup {"ocean_mesh_hgr.nc"},
      MeshNames,
      {} }

\* The path of work directory n after the common prefix "mobile_file_": its
\* digits, then "_work".
WorkDirPath(n) == DecimalDigits(n) \o <<95, 119, 111, 114, 107>>

\* extract_file_number: int(match.group(1)) of r'mobile_file_(\d+)_work'.
extract_file_number(dirname) == ParseDigits(dirname, 1, 0)

\* sorted(work_dirs, key=extract_file_number)
sorted_work_dirs(dirs) ==
    [i \in 1..Cardinality(dirs) |->
        CHOOSE d \in dirs :
            Cardinality({e \in dirs :
                extract_file_number(e) < extract_file_number(d)}) = i - 1]

\* os.path.exists(os.path.join(work_dir, name))
exists_in(tree, work_dir, name) == name \in tree[extract_file_number(work_dir)]

RECURSIVE var_datasets(_, _, _, _)
\* var_datasets after the first k passes of `for i, work_dir in
\* enumerate(work_dirs)`: one dataset per directory that holds the file, its
\* time_counter set to [float(i)].
var_datasets(tree, dirs, var, k) ==
    IF k = 0 THEN <<>>
    ELSE LET before == var_datasets(tree, dirs, var, k - 1)
         IN IF exists_in(tree, dirs[k], var)
            THEN Append(before, [dir |-> extract_file_number(dirs[k]),
                                 time_counter |-> k - 1])
            ELSE before

\* The keys of the dict `datasets`: a variable none of the directories holds
\* gets no entry.
loaded(tree, dirs) ==
    {var \in VarLetters : var_datasets(tree, dirs, var, Len(dirs)) # <<>>}

\* ds.assign_coords(time_counter=values) raises ValueError unless there is one
\* value per time step of ds.
assign_coords_raises(ds, values) == Len(ds) # Len(values)

\* ds.assign_coords(time_counter=values)
assign_coords(ds, values) ==
    [k \in 1..Len(ds) |-> [ds[k] EXCEPT !.time_counter = values[k]]]

AggregatedDate == <<2024, 1, 1>>
AggregatedSettingsFile == FileName("complete_timeseries_settings.json", <<>>)

RECURSIVE AggregateSave(_, _, _, _)
\* `for var, ds in datasets.items()` over the first j letters: the files
\* written, and whether assign_coords raised.
AggregateSave(files, dsets, hours, j) ==
    IF j = 0 THEN [files |-> files, raised |-> FALSE]
    ELSE LET before == AggregateSave(files, dsets, hours, j - 1)
             var == LetterOrder[j]
         IN IF before.raised \/ var \notin DOMAIN dsets THEN before
            ELSE IF assign_coords_raises(dsets[var], hours)
            THEN [before EXCEPT !.raised = TRUE]
            ELSE [before EXCEPT !.files =
                     Put(before.files, FileName(var, AggregatedDate),
                         [nemo_var |-> NemoVar(var),
                          steps |-> assign_coords(dsets[var], hours)])]

\* What the aggregation leaves alone.
aggregateIdle == <<prog, target_depths, listing, file_input, work_dirs, run,
                   disk, trajectories, features, request, tmp_files, response,
                   t, target_shape, all_files, schism_files, data, runIdle,
                   regridVars, tsVars, gridVars, handleVars, boundsVars>>

\* The glob, the sort and the loading of the datasets.
AG_load ==
    /\ prog = "aggregate" /\ pc = "start"
    /\ LET dirs == sorted_work_dirs({WorkDirPath(n) : n \in listing})
       IN /\ sorted_files' = dirs
          /\ IF dirs = <<>> \/ loaded(work_dirs, dirs) = {}
             THEN /\ pc' = "returned_false"        \* return False
                  /\ UNCHANGED datasets
             ELSE /\ datasets' = [var \in loaded(work_dirs, dirs) |->
                                    var_datasets(work_dirs, dirs, var, Len(dirs))]
                  /\ pc' = "save"
    /\ UNCHANGED out
    /\ UNCHANGED aggregateIdle

\* The loop that saves the aggregated files.
AG_save ==
    /\ prog = "aggregate" /\ pc = "save"
    /\ LET n_times == Len(sorted_files)
           r == AggregateSave(out, datasets, Arange(0, n_times), Len(LetterOrder))
       IN /\ out' = r.files
          /\ IF r.raised THEN Fail ELSE pc' = "copy"
    /\ UNCHANGED <<sorted_files, datasets>>
    /\ UNCHANGED aggregateIdle

\* The copy of the mesh and bathymetry files of work_dirs[0], and the
\* settings file.
AG_copy_and_settings ==
    /\ prog = "aggregate" /\ pc = "copy"
    /\ LET copied == {name \in MeshNames : exists_in(work_dirs, sorted_files[1], name)}
           meshes == [n \in DOMAIN out \cup {FileName(name, <<>>) : name \in copied} |->
                        IF n \in DOMAIN out THEN out[n]
                        ELSE [copied_from |-> extract_file_number(sorted_files[1])]]
       IN out' = Put(meshes, AggregatedSettingsFile, ocean_settings("", FALSE))
    /\ pc' = "done"
    /\ UNCHANGED <<sorted_files, datasets>>
    /\ UNCHANGED aggregateIdle

NextAggregate == AG_load \/ AG_save \/ AG_copy_and_settings

(***************************************************************************)
(* The API server (plasticparcels_api_server.py): zarr_to_geojson.  The    *)
(* trajectory dataset is its lon and lat arrays; a 2-D array is the        *)
(* sequence of its rows.                                                   *)
(***************************************************************************)
\* lons.shape of a 2-D array.
shape_of(a) == <<Len(a), Len(a[1])>>

\* valid = ~np.isnan(p_lons) & ~np.isnan(p_lats): the indices where it is True.
valid_positions(p_lons, p_lats) ==
    {k \in 1..Len(p_lons) : ~isnan(p_lons[k]) /\ ~isnan(p_lats[k])}

RECURSIVE masked(_, _, _, _)
\* zip(p_lons[valid], p_lats[valid]) over the first k elements: the pairs
\* [float(lon), float(lat)] at the valid indices, in their order.
masked(p_lons, p_lats, valid, k) ==
    IF k = 0 THEN <<>>
    ELSE IF k \in valid
    THEN Append(masked(p_lons, p_lats, valid, k - 1), <<p_lons[k], p_lats[k]>>)
    ELSE masked(p_lons, p_lats, valid, k - 1)

\* The feature of one particle.
Feature(particle_id, coordinates) ==
    [type |-> "Feature",
     particle_id |-> particle_id,
     trajectory_length |-> Len(coordinates),
     geometry |-> "LineString",
     coordinates |-> coordinates]

\* features after the pass of a loop for particle p (0-based) with the arrays
\* p_lons and p_lats: a particle with no valid position adds nothing.
add_feature(feats, p, p_lons, p_lats) ==
    LET valid == valid_positions(p_lons, p_lats)
    IN IF valid # {}
       THEN Append(feats, Feature(p, masked(p_lons, p_lats, valid, Len(p_lons))))
       ELSE feats

\* lons[p, :] and lons[:, p], p counted from 1 here.
row(a, p) == a[p]
column(a, p) == [k \in 1..Len(a) |-> a[k][p]]

RECURSIVE by_rows(_, _, _)
\* The loop of the branch lons.shape[0] < lons.shape[1], its first n passes.
by_rows(lon, lat, n) ==
    IF n = 0 THEN <<>>
    ELSE add_feature(by_rows(lon, lat, n - 1), n - 1, row(lon, n), row(lat, n))

RECURSIVE by_columns(_, _, _)
\* The loop of the other branch, its first n passes.
by_columns(lon, lat, n) ==
    IF n = 0 THEN <<>>
    ELSE add_feature(by_columns(lon, lat, n - 1), n - 1,
                     column(lon, n), column(lat, n))

\* zarr_to_geojson: the features of the collection it returns.
zarr_to_geojson(ds) ==
    IF ds.ndim = 2
    THEN IF shape_of(ds.lon)[1] < shape_of(ds.lon)[2]
         THEN by_rows(ds.lon, ds.lat, shape_of(ds.lon)[1])
         ELSE by_columns(ds.lon, ds.lat, shape_of(ds.lon)[2])
    ELSE add_feature(<<>>, 0, ds.lon, ds.lat)

\* What the server leaves alone.
serverIdle == <<prog, target_depths, listing, file_input, sorted_files,
                work_dirs, datasets, run, disk, converterVars>>

\* zarr_to_geojson(zarr_file)
ZG_zarr_to_geojson ==
    /\ prog = "zarr_to_geojson" /\ pc = "start"
    /\ features' = zarr_to_geojson(trajectories)
    /\ pc' = "returned"
    /\ UNCHANGED <<trajectories, request, tmp_files, response>>
    /\ UNCHANGED serverIdle

NextGeoJSON == ZG_zarr_to_geojson

(***************************************************************************)
(* The API server: POST /simulate.  One behaviour is one request, from its *)
(* arrival to its response.                                                *)
(***************************************************************************)
\* tempfile.NamedTemporaryFile(suffix='.zarr', delete=False): tmp_file.name
OutputFile == "tmp.zarr"

\* The status of the validation of the request: 0 when it passes.
validate(body) ==
    IF ~body.has_release_locations THEN 400
    ELSE IF ~body.has_lons_and_lats THEN 400
    ELSE IF body.n_lons # body.n_lats THEN 400
    ELSE IF body.n_lons = 0 THEN 400
    ELSE IF body.simulation_hours <= 0 \/ body.simulation_hours > 720 THEN 400
    ELSE IF body.output_minutes <= 0 \/ body.output_minutes > 1440 THEN 400
    ELSE IF body.dt_minutes <= 0 \/ body.dt_minutes > 60 THEN 400
    ELSE 0

\* The dataset pset.execute writes for P particles and T outputs when every
\* particle stays in the domain.
simulated(P, T) ==
    [ndim |-> 2,
     lon |-> [p \in 1..P |-> [k \in 1..T |-> Num(10 * p + k)]],
     lat |-> [p \in 1..P |-> [k \in 1..T |-> Num(0 - (10 * p + k))]]]

\* What run_trajectory_simulation may come to: the fieldset or the particle
\* set cannot be built; pset.execute raises before or after the particle
\* file has written output; pset.execute returns.
SimulationOutcomes == {"no_fieldset", "raised_before_output",
                       "raised_after_output", "returned"}

\* os.unlink(output_file) and shutil.rmtree(output_file)
remove(files, name) == files \ {name}

\* if os.path.exists(output_file): shutil.rmtree(output_file)
cleanup(files, name) == IF name \in files THEN remove(files, name) ELSE files

\* simulate_trajectories: the parsing and the validation of the request.
SM_validate ==
    /\ prog = "simulate" /\ pc = "start"
    /\ IF validate(request) # 0
       THEN /\ response' = validate(request)
            /\ pc' = "responded"
       ELSE /\ pc' = "simulate"
            /\ UNCHANGED response
    /\ UNCHANGED <<trajectories, features, request, tmp_files>>
    /\ UNCHANGED serverIdle

\* simulate_trajectories: run_trajectory_simulation; what it raises is
\* answered with 500 by the handler's except clause.
SM_run_trajectory_simulation ==
    /\ prog = "simulate" /\ pc = "simulate"
    /\ \E outcome \in SimulationOutcomes, T \in 1..MaxObs :
          LET named == tmp_files \cup {OutputFile}  \* NamedTemporaryFile
              unlinked == remove(named, OutputFile)
          IN CASE outcome = "no_fieldset" ->
                    /\ response' = 500 /\ pc' = "responded"
                    /\ UNCHANGED <<tmp_files, trajectories>>
               [] outcome = "raised_before_output" ->
                    /\ response' = 500 /\ pc' = "responded"
                    /\ tmp_files' = unlinked
                    /\ UNCHANGED trajectories
               [] outcome = "raised_after_output" ->
                    /\ response' = 500 /\ pc' = "responded"
                    /\ tmp_files' = unlinked \cup {OutputFile}
                    /\ trajectories' = simulated(request.n_lons, T)
               [] outcome = "returned" ->
                    /\ pc' = "convert"
                    /\ tmp_files' = unlinked \cup {OutputFile}
                    /\ trajectories' = simulated(request.n_lons, T)
                    /\ UNCHANGED response
    /\ UNCHANGED <<features, request>>
    /\ UNCHANGED serverIdle

\* simulate_trajectories: zarr_to_geojson, the clean-up and the response;
\* readable tells whether xr.open_zarr can open the output.
SM_convert_and_respond ==
    /\ prog = "simulate" /\ pc = "convert"
    /\ \E readable \in BOOLEAN :
          IF readable
          THEN /\ features' = zarr_to_geojson(trajectories)
               /\ tmp_files' = cleanup(tmp_files, OutputFile)
               /\ response' = 200
          ELSE /\ response' = 500        \* the except clause of the handler
               /\ UNCHANGED <<features, tmp_files>>
    /\ pc' = "responded"
    /\ UNCHANGED <<trajectories, request>>
    /\ UNCHANGED serverIdle

NextSimulate ==
    \/ SM_validate
    \/ SM_run_trajectory_simulation
    \/ SM_convert_and_respond

(***************************************************************************)
(* The initial states: the arguments and the input of one run.             *)
(***************************************************************************)
NoFiles == [n \in {} |-> 0]
NoData == [v \in RegridVars |-> ZerosArray(0, <<0, 0>>)]

Idle ==
    /\ n_days = 0 /\ day = 0 /\ h = 0 /\ t = 0
    /\ target_shape = <<0, 0>>
    /\ data = NoData
    /\ ds_n_times = 0
    /\ time_info = <<>>
    /\ combined_ds = <<>>
    /\ out = NoFiles

IdleRegrid ==
    /\ lons = <<>> /\ lats = <<>> /\ vals = <<>>
    /\ griddata_call = NoCall

IdleHandles == ds_missing = {} /\ open_files = {}

IdleBounds ==
    /\ lon_bounds = <<>> /\ lat_bounds = <<>>
    /\ spatial_mask = NoMask
    /\ subset = {}
    /\ opened = 0
    /\ griddata_calls = {}
    /\ extent_nodes = {}

IdleTools ==
    /\ target_depths = <<>>
    /\ listing = {} /\ file_input = <<>> /\ sorted_files = <<>>
    /\ work_dirs = <<>> /\ datasets = <<>>
    /\ run = 1 /\ disk = NoFiles
    /\ trajectories = <<>> /\ features = <<>>
    /\ request = <<>> /\ tmp_files = {} /\ response = 0

IdleGrid ==
    /\ target_resolution = 0
    /\ depths = <<>>
    /\ target_lons = <<>> /\ target_lats = <<>>
    /\ bathy_regridded = <<>>
    /\ regridded = <<>>
    /\ warnings = <<>>
    /\ mbathy = <<>>

MaxFilesArgs == {0, 4}

InitMobileBay ==
    /\ IdleTools
    /\ prog = "mobile_bay" /\ pc = "start"
    /\ all_files \in 0..MaxFiles
    /\ max_files \in MaxFilesArgs
    /\ hours_per_day \in 1..MaxHpd
    /\ schism_files = 0
    /\ Idle /\ IdleRegrid /\ IdleGrid /\ IdleHandles /\ IdleBounds

InitRobust ==
    /\ IdleTools
    /\ prog = "robust" /\ pc = "start"
    /\ all_files \in 0..MaxFiles
    /\ max_files = 0 /\ hours_per_day = 1
    /\ schism_files = 0
    /\ Idle /\ IdleRegrid /\ IdleGrid /\ IdleHandles /\ IdleBounds

InitProper ==
    /\ IdleTools
    /\ prog = "proper" /\ pc = "start"
    /\ all_files \in 0..MaxFiles
    /\ max_files = 0 /\ hours_per_day = 1
    /\ schism_files = 0
    /\ Idle /\ IdleRegrid /\ IdleGrid /\ IdleHandles /\ IdleBounds

\* SCHISMTimeSeriesConverter(schism_files=[...]): the list is the caller's.
InitTimeSeries ==
    /\ IdleTools
    /\ prog = "timeseries" /\ pc = "analyze"
    /\ all_files \in 0..MaxListed
    /\ schism_files = all_files
    /\ max_files = 0 /\ hours_per_day = 1
    /\ Idle /\ IdleRegrid /\ IdleGrid /\ IdleHandles /\ IdleBounds

\* The regridding of one variable, for any node cloud and any node values.
InitRegrid ==
    /\ IdleTools
    /\ prog = "regrid" /\ pc = "call"
    /\ all_files = 0 /\ max_files = 0 /\ hours_per_day = 1 /\ schism_files = 0
    /\ Idle /\ IdleHandles /\ IdleBounds
    /\ lons \in [Nodes -> CoordValues]
    /\ lats \in [Nodes -> CoordValues]
    /\ vals = [n \in Nodes |-> NaN]
    /\ griddata_call = NoCall
    /\ IdleGrid

SpecRegrid == InitRegrid /\ [][NextRegrid]_vars

\* One snapshot sequence regridded by MobileBayConverter, or one variable by
\* SCHISMToNEMORegridder: the first node is the origin of the coordinates.
LatticeCoords == {Num(c) : c \in 0..MaxCoord}

InitGrid ==
    /\ IdleTools
    /\ prog \in {"grid", "regridder"} /\ pc = "start"
    /\ all_files = 0 /\ max_files = 0 /\ hours_per_day = 1 /\ schism_files = 0
    /\ Idle /\ IdleHandles /\ IdleBounds
    /\ lons \in {f \in [Cloud -> LatticeCoords] : f[1] = Num(0)}
    /\ lats \in {f \in [Cloud -> LatticeCoords] : f[1] = Num(0)}
    /\ vals = <<>>
    /\ griddata_call = NoCall
    /\ target_resolution \in 1..MaxRes
    /\ depths \in (IF prog = "grid" THEN DepthFields ELSE {<<NaN, NaN, NaN>>})
    /\ target_lons = <<>> /\ target_lats = <<>>
    /\ bathy_regridded = <<>>
    /\ regridded = <<>>
    /\ warnings = <<>>
    /\ mbathy = <<>>

SpecGrid == InitGrid /\ [][NextGrid]_vars

\* convert_mobile_schism_daily has no arguments: the directory holds any
\* number of snapshots.
InitDaily ==
    /\ IdleTools
    /\ prog = "daily" /\ pc = "start"
    /\ all_files \in 0..(2 * MaxFiles + 1)
    /\ max_files = 0 /\ hours_per_day = DailyHoursPerDay
    /\ schism_files = 0
    /\ Idle /\ IdleRegrid /\ IdleGrid /\ IdleHandles /\ IdleBounds

SpecDaily == InitDaily /\ [][NextDaily]_vars

\* One call of either file-list method: the directory holds any set of the
\* snapshots out2d_1.nc .. out2d_<MaxNumber>.nc.
InitSort ==
    /\ prog \in {"get_schism_files", "parse_file_input"} /\ pc = "start"
    /\ all_files = 0 /\ hours_per_day = 1 /\ schism_files = 0
    /\ max_files \in (IF prog = "get_schism_files" THEN MaxFilesArgs ELSE {0})
    /\ Idle /\ IdleRegrid /\ IdleGrid /\ IdleHandles /\ IdleBounds
    /\ target_depths = <<>>
    /\ listing \in SUBSET (1..MaxNumber)
    /\ file_input = <<>> /\ sorted_files = <<>>
    /\ work_dirs = <<>> /\ datasets = <<>>
    /\ run = 1 /\ disk = NoFiles
    /\ trajectories = <<>> /\ features = <<>>
    /\ request = <<>> /\ tmp_files = {} /\ response = 0

SpecSort == InitSort /\ [][NextSort]_vars

\* One run of aggregate_mobile_timeseries: any set of work directories, each
\* with any of the contents.
InitAggregate ==
    /\ prog = "aggregate" /\ pc = "start"
    /\ all_files = 0 /\ hours_per_day = 1 /\ schism_files = 0 /\ max_files = 0
    /\ Idle /\ IdleRegrid /\ IdleGrid /\ IdleHandles /\ IdleBounds
    /\ target_depths = <<>>
    /\ listing \in SUBSET (1..MaxDirs)
    /\ work_dirs \in [listing -> WorkDirContents]
    /\ file_input = <<>> /\ sorted_files = <<>>
    /\ datasets = <<>>
    /\ run = 1 /\ disk = NoFiles
    /\ trajectories = <<>> /\ features = <<>>
    /\ request = <<>> /\ tmp_files = {} /\ response = 0

SpecAggregate == InitAggregate /\ [][NextAggregate]_vars

(***************************************************************************)
(* Successive runs of MobileBayConverter.convert into one output           *)
(* directory: `out` holds what the run at hand has written, `disk` what    *)
(* the runs before it left there.                                          *)
(***************************************************************************)
\* The files of the output directory, and the run each was written by last.
Directory == DOMAIN disk \cup DOMAIN out
WrittenBy(name) == IF name \in DOMAIN out THEN run ELSE disk[name]

\* The arguments of a run of the sequence.
RunFiles == 0..MaxListed
RunHoursPerDay == {1, HoursPerCalendarDay}

\* MobileBayConverter(schism_dir, output_dir, ..).convert() once more, after
\* the run before it has returned or raised: __init__ creates the directory
\* only if it is missing and nothing empties it.
MB_rerun ==
    /\ prog = "mobile_bay" /\ pc \in {"done", "failed"} /\ run < MaxRuns
    /\ disk' = [name \in Directory |-> WrittenBy(name)]
    /\ run' = run + 1
    /\ pc' = "start"
    /\ all_files' \in RunFiles
    /\ hours_per_day' \in RunHoursPerDay
    /\ max_files' = 0
    /\ schism_files' = 0
    /\ n_days' = 0 /\ day' = 0 /\ h' = 0 /\ t' = 0
    /\ target_shape' = <<0, 0>>
    /\ data' = NoData
    /\ ds_n_times' = 0
    /\ out' = NoFiles
    /\ ds_missing' = {} /\ open_files' = {}
    /\ UNCHANGED tsVars /\ UNCHANGED regridVars /\ UNCHANGED gridVars
    /\ UNCHANGED boundsVars
    /\ UNCHANGED <<prog, target_depths, listing, file_input, sorted_files,
                   work_dirs, datasets, trajectories, features, request,
                   tmp_files, response>>

NextRuns == NextMobileBay \/ MB_rerun

\* The first run into an output directory that is empty.
InitRuns ==
    /\ IdleTools
    /\ prog = "mobile_bay" /\ pc = "start"
    /\ all_files \in RunFiles
    /\ max_files = 0
    /\ hours_per_day \in RunHoursPerDay
    /\ schism_files = 0
    /\ Idle /\ IdleRegrid /\ IdleGrid /\ IdleHandles /\ IdleBounds

SpecRuns == InitRuns /\ [][NextRuns]_vars

\* The position of particle p at observation k: both coordinates, or one of
\* them NaN, or both.
PositionsAt(p, k) ==
    { [lon |-> Num(10 * p + k), lat |-> Num(0 - (10 * p + k))],
      [lon |-> NaN, lat |-> Num(0 - (10 * p + k))],
      [lon |-> NaN, lat |-> NaN] }

\* The datasets of P particles and T observations, arrays of shape (P, T).
Trajectories(P, T) ==
    { [ndim |-> 2,
       lon |-> [p \in 1..P |-> [k \in 1..T |-> pos[p][k].lon]],
       lat |-> [p \in 1..P |-> [k \in 1..T |-> pos[p][k].lat]]] :
      pos \in { f \in [1..P -> [1..T -> UNION {PositionsAt(p, k) : p \in 1..P, k \in 1..T}]] :
                  \A p \in 1..P, k \in 1..T : f[p][k] \in PositionsAt(p, k) } }

\* The datasets of one particle whose arrays are 1-D.
Trajectories1D(T) ==
    { [ndim |-> 1, lon |-> ds.lon[1], lat |-> ds.lat[1]] : ds \in Trajectories(1, T) }

\* One call of zarr_to_geojson.
InitGeoJSON ==
    /\ prog = "zarr_to_geojson" /\ pc = "start"
    /\ all_files = 0 /\ hours_per_day = 1 /\ schism_files = 0 /\ max_files = 0
    /\ Idle /\ IdleRegrid /\ IdleGrid /\ IdleHandles /\ IdleBounds
    /\ target_depths = <<>>
    /\ listing = {} /\ file_input = <<>> /\ sorted_files = <<>>
    /\ work_dirs = <<>> /\ datasets = <<>>
    /\ run = 1 /\ disk = NoFiles
    /\ \E P \in 1..MaxParticles, T \in 1..MaxObs :
          \/ trajectories \in Trajectories(P, T)
          \/ trajectories \in Trajectories1D(T)
    /\ features = <<>>
    /\ request = <<>> /\ tmp_files = {} /\ response = 0

SpecGeoJSON == InitGeoJSON /\ [][NextGeoJSON]_vars

\* The bodies of the /simulate requests.
Requests ==
    [has_release_locations : BOOLEAN,
     has_lons_and_lats : BOOLEAN,
     n_lons : 0..MaxParticles,
     n_lats : 0..MaxParticles,
     simulation_hours : {0, 72, 721},
     output_minutes : {0, 30, 1441},
     dt_minutes : {0, 5, 61}]

\* One request to /simulate: no temporary output is on disk.
InitSimulate ==
    /\ prog = "simulate" /\ pc = "start"
    /\ all_files = 0 /\ hours_per_day = 1 /\ schism_files = 0 /\ max_files = 0
    /\ Idle /\ IdleRegrid /\ IdleGrid /\ IdleHandles /\ IdleBounds
    /\ target_depths = <<>>
    /\ listing = {} /\ file_input = <<>> /\ sorted_files = <<>>
    /\ work_dirs = <<>> /\ datasets = <<>>
    /\ run = 1 /\ disk = NoFiles
    /\ trajectories = <<>> /\ features = <<>>
    /\ request \in Requests
    /\ tmp_files = {} /\ response = 0

SpecSimulate == InitSimulate /\ [][NextSimulate]_vars

\* The methods of SCHISMToNEMORegridder called on one grid file: the first
\* node is the origin of the coordinates, the depths are any of DepthFields.
InitRegridder ==
    /\ IdleTools
    /\ prog = "regridder" /\ pc = "start"
    /\ all_files = 0 /\ max_files = 0 /\ hours_per_day = 1 /\ schism_files = 0
    /\ Idle /\ IdleHandles /\ IdleBounds
    /\ lons \in {f \in [Cloud -> LatticeCoords] : f[1] = Num(0)}
    /\ lats \in {f \in [Cloud -> LatticeCoords] : f[1] = Num(0)}
    /\ vals = <<>>
    /\ griddata_call = NoCall
    /\ target_resolution \in 1..MaxRes
    /\ depths \in DepthFields
    /\ target_lons = <<>> /\ target_lats = <<>>
    /\ bathy_regridded = <<>>
    /\ regridded = <<>>
    /\ warnings = <<>>
    /\ mbathy = <<>>

\* One run of one of the converters, or one call of the regridder.
Init ==
    \/ InitMobileBay
    \/ InitRobust
    \/ InitProper
    \/ InitTimeSeries
    \/ InitRegridder

Next ==
    \/ NextMobileBay
    \/ NextRobust
    \/ NextProper
    \/ NextTimeSeries
    \/ NextRegridder

Spec == Init /\ [][Next]_vars

\* create_target_grid for a cloud of two nodes: the extent of the longitudes
\* is any pair of floats from 1.0 to MaxLon, the latitudes span 1.0 to 2.0,
\* and the resolution is a float from 0.25 to 0.5.
InitFloat ==
    /\ IdleTools
    /\ prog \in {"float_grid", "float_regridder"} /\ pc = "start"
    /\ all_files = 0 /\ max_files = 0 /\ hours_per_day = 1 /\ schism_files = 0
    /\ Idle /\ IdleHandles /\ IdleBounds
    /\ \E lo \in Floats(One, MaxLon * One), hi \in Floats(One, MaxLon * One) :
          lo <= hi /\ lons = <<Num(lo), Num(hi)>>
    /\ lats = <<Num(One), Num(2 * One)>>
    /\ vals = <<>>
    /\ griddata_call = NoCall
    /\ target_resolution \in Floats(One \div 4, One \div 2)
    /\ depths = <<>>
    /\ target_lons = <<>> /\ target_lats = <<>>
    /\ bathy_regridded = <<>>
    /\ regridded = <<>>
    /\ warnings = <<>>
    /\ mbathy = <<>>

SpecFloat == InitFloat /\ [][NextFloat]_vars

\* One run of either main with its --lon_bounds and --lat_bounds: the nodes
\* are the points of the lattice 0..MaxCoord x 0..MaxCoord, row by row.
LatticeSide == MaxCoord + 1
LatticeNodes == 1..(LatticeSide * LatticeSide)

InitBounds ==
    /\ IdleTools
    /\ prog \in {"timeseries_main", "complete_main"} /\ pc = "start"
    /\ all_files \in (IF prog = "complete_main" THEN 0..1 ELSE 1..MaxSnapshots)
    /\ schism_files = all_files
    /\ max_files = 0 /\ hours_per_day = 1
    /\ Idle /\ IdleHandles
    /\ lon_bounds \in BoundsStrings
    /\ lat_bounds \in BoundsStrings
    /\ spatial_mask = NoMask
    /\ subset = {}
    /\ opened = 0
    /\ griddata_calls = {}
    /\ extent_nodes = {}
    /\ lons = [n \in LatticeNodes |-> Num((n - 1) % LatticeSide)]
    /\ lats = [n \in LatticeNodes |-> Num((n - 1) \div LatticeSide)]
    /\ vals = <<>>
    /\ griddata_call = NoCall
    /\ target_resolution = 1
    /\ depths = [n \in LatticeNodes |-> Num(n)]
    /\ target_lons = <<>> /\ target_lats = <<>>
    /\ bathy_regridded = <<>>
    /\ regridded = <<>>
    /\ warnings = <<>>
    /\ mbathy = <<>>

SpecBounds == InitBounds /\ [][NextBounds]_vars

(***************************************************************************)
(* The claims.                                                             *)
(***************************************************************************)
Has(name) == name \in DOMAIN out
DailyFile(letter, d) == FileName(letter, StrftimeYmd(d))
HourlyFile(letter, n) == FileName(letter, StrftimeYmdH(n))
Ceil(n, d) == (n + d - 1) \div d
StrictlyIncreasing(s) == \A i \in 1..(Len(s) - 1) : s[i] < s[i + 1]
Occurrences(slices, f) == Cardinality({k \in 1..Len(slices) : slices[k].file = f})
Count(files, f) == Cardinality({k \in 1..Len(files) : files[k] = f})

\* The time_counter values of the daily files of `letter` for days 0..d-1,
\* read in day order.
RECURSIVE WrittenTimes(_, _)
WrittenTimes(letter, d) ==
    IF d = 0 THEN <<>>
    ELSE WrittenTimes(letter, d - 1) \o
         (IF Has(DailyFile(letter, d - 1))
          THEN out[DailyFile(letter, d - 1)].time_counter ELSE <<>>)

\* The snapshots the daily files of `letter` for days 0..d-1 hold, in order.
RECURSIVE WrittenSnapshots(_, _)
WrittenSnapshots(letter, d) ==
    IF d = 0 THEN <<>>
    ELSE WrittenSnapshots(letter, d - 1) \o
         (IF Has(DailyFile(letter, d - 1))
          THEN [k \in 1..Len(out[DailyFile(letter, d - 1)].slices) |->
                    out[DailyFile(letter, d - 1)].slices[k].file]
          ELSE <<>>)

\* C1: the time_counter values MobileBayConverter.convert writes, read across
\* its daily files in day order, are strictly increasing at every moment of the
\* run (also across the boundary of two files), and a run that returns has
\* written exactly one value per snapshot; otherwise the run has failed.
C1_TimeStrictlyIncreasing ==
    prog = "mobile_bay" =>
        \A letter \in VarLetters :
            /\ StrictlyIncreasing(WrittenTimes(letter, MaxFiles + 1))
            /\ pc = "done" =>
                  Len(WrittenTimes(letter, MaxFiles + 1)) = schism_files

\* C1, its case: a finished run of at least two daily files, the last one short.
C1_Witness ==
    /\ prog = "mobile_bay" /\ pc = "done"
    /\ n_days >= 2 /\ schism_files % hours_per_day # 0
    /\ Len(WrittenTimes("U", MaxFiles + 1)) = schism_files

\* C2: a conversion never returns successfully with a dataset from which the
\* time step of one of the snapshots of its input list is missing: when convert
\* or run_complete_workflow is done, every snapshot of schism_files is held by
\* a time step of the written U files.
C2_NoSnapshotSilentlyMissing ==
    /\ (prog = "mobile_bay" /\ pc = "done") =>
          \A f \in 1..schism_files :
              Count(WrittenSnapshots("U", MaxFiles + 1), f) >= 1
    /\ (prog = "timeseries" /\ pc = "done") =>
          \A f \in 1..schism_files :
              /\ Has(FileName("U", TimeseriesDate))
              /\ \E k \in 1..Len(out[FileName("U", TimeseriesDate)].slices) :
                    out[FileName("U", TimeseriesDate)].slices[k].file = f

\* C3: when convert returns, snapshot i (from 0) is time slice i mod
\* hours_per_day of the daily file of day i div hours_per_day, for U, V and T;
\* the daily file sets are those of days 0 .. ceil(N / hours_per_day) - 1, the
\* last one holds the remainder, and every snapshot is held exactly once.  A
\* daily file written earlier in the run already holds its snapshots in place.
C3_SnapshotPlacement ==
    prog = "mobile_bay" =>
        /\ \A d \in 0..MaxFiles : \A letter \in {"U", "V", "T"} :
              Has(DailyFile(letter, d)) =>
                  \A k \in 1..Len(out[DailyFile(letter, d)].slices) :
                      out[DailyFile(letter, d)].slices[k].file
                          = d * hours_per_day + k
        /\ pc = "done" =>
              /\ \A i \in 0..(schism_files - 1) : \A letter \in {"U", "V", "T"} :
                    /\ Has(DailyFile(letter, i \div hours_per_day))
                    /\ Len(out[DailyFile(letter, i \div hours_per_day)].slices)
                          > i % hours_per_day
                    /\ out[DailyFile(letter, i \div hours_per_day)]
                          .slices[(i % hours_per_day) + 1].file = i + 1
              /\ \A letter \in VarLetters :
                    {d \in 0..MaxFiles : Has(DailyFile(letter, d))}
                        = 0..(Ceil(schism_files, hours_per_day) - 1)
              /\ \A f \in 1..schism_files :
                    Count(WrittenSnapshots("U", MaxFiles + 1), f) = 1
              /\ Len(WrittenSnapshots("U", MaxFiles + 1)) = schism_files
              /\ Len(out[DailyFile("U", Ceil(schism_files, hours_per_day) - 1)].slices)
                    = schism_files
                      - (Ceil(schism_files, hours_per_day) - 1) * hours_per_day

\* C3, its case: a finished run whose last day holds a remainder.
C3_Witness ==
    /\ prog = "mobile_bay" /\ pc = "done"
    /\ hours_per_day = 2 /\ schism_files = 5
    /\ Has(DailyFile("U", 2))
    /\ Len(out[DailyFile("U", 2)].slices) = 1
    /\ out[DailyFile("U", 2)].slices[1].file = 5

\* The field files a finished run of `prog` must have written.
FieldFilesWritten ==
    CASE prog = "mobile_bay" ->
            \A d \in 0..(Ceil(schism_files, hours_per_day) - 1) :
                \A letter \in VarLetters : Has(DailyFile(letter, d))
      [] prog = "timeseries" ->
            \A letter \in VarLetters : Has(FileName(letter, TimeseriesDate))
      [] OTHER -> TRUE

Descriptor ==
    IF prog = "timeseries" THEN TimeseriesSettingsFile ELSE SettingsFile

\* C4: in convert and in run_complete_workflow the descriptor is in the output
\* only when every field file of the run and the mesh and bathymetry files are,
\* and a run that has failed has written no descriptor.
C4_DescriptorLast ==
    prog \in {"mobile_bay", "timeseries"} =>
        /\ Has(Descriptor) =>
              /\ FieldFilesWritten
              /\ Has(MeshFile)
              /\ Has(BathyFile)
        /\ pc = "failed" => ~Has(Descriptor)

\* C4, its case: convert has written the descriptor after several days.
C4_Witness ==
    /\ prog = "mobile_bay" /\ Has(SettingsFile) /\ n_days >= 2
    /\ Has(MeshFile) /\ Has(BathyFile)

\* C5: across the hourly files of convert_mobile_schism_proper, a later
\* snapshot has a strictly larger time coordinate value than an earlier one.
C5_HourlyTimesIncrease ==
    prog = "proper" =>
        \A t1 \in 0..MaxFiles, t2 \in 0..MaxFiles :
            (t1 < t2 /\ Has(HourlyFile("U", t1)) /\ Has(HourlyFile("U", t2))) =>
                out[HourlyFile("U", t1)].time_counter[1]
                    < out[HourlyFile("U", t2)].time_counter[1]

\* C6: a snapshot that declares k time instants has k time indices in the
\* assembled arrays, in convert and in convert_mobile_schism_robust: right
\* after a snapshot was processed, as many time slices hold it as it declares.
C6_OneIndexPerInstant ==
    /\ (prog = "mobile_bay" /\ pc = "hour" /\ h > 0) =>
          Occurrences(data["U"].slices,
                      day_files(day, hours_per_day, schism_files)[h]) = ds_n_times
    /\ (prog = "robust" /\ pc = "loop" /\ t > 0) =>
          Occurrences(data["U"].slices, t) = ds_n_times

\* C7: N snapshots give the time coordinate 0, 1, .., N-1 in the files of
\* convert_mobile_schism_robust and 0, 3600, .., 3600*(N-1) in the daily file
\* of MobileBayConverter when N <= hours_per_day; for N = 5 these are
\* 0,1,2,3,4 and 0,3600,7200,10800,14400.
C7_TimeCoordinate ==
    /\ (prog = "robust" /\ pc = "done") =>
          \A letter \in VarLetters :
              /\ out[FileName(letter, RobustDate)].time_counter
                    = [i \in 1..schism_files |-> i - 1]
              /\ schism_files = 5 =>
                    out[FileName(letter, RobustDate)].time_counter
                        = <<0, 1, 2, 3, 4>>
    /\ (prog = "mobile_bay" /\ pc = "done" /\ schism_files <= hours_per_day) =>
          \A letter \in VarLetters :
              /\ out[DailyFile(letter, 0)].time_counter
                    = [i \in 1..schism_files |-> 3600 * (i - 1)]
              /\ schism_files = 5 =>
                    out[DailyFile(letter, 0)].time_counter
                        = <<0, 3600, 7200, 10800, 14400>>

\* C7, its case: five snapshots in one daily file.
C7_Witness ==
    /\ prog = "mobile_bay" /\ pc = "done"
    /\ schism_files = 5 /\ hours_per_day >= 5
    /\ out[DailyFile("U", 0)].time_counter = <<0, 3600, 7200, 10800, 14400>>

\* C8: every field file written by save_daily_files, save_nemo_timeseries or
\* convert_mobile_schism_robust carries a units attribute on time_counter.
C8_ExplicitTimeUnits ==
    prog \in {"mobile_bay", "timeseries", "robust"} =>
        \A name \in DOMAIN out :
            name[1] \in VarLetters => out[name].units # NoAttr

\* C9: while convert fills a day, each array of U, V and elevation has shape
\* (n, ny, nx), n being the number of snapshots of the day; the time indices
\* below h were each assigned exactly once and hold the snapshot of their
\* hour, the others were never assigned.
C9_DailyArrays ==
    (prog = "mobile_bay" /\ pc = "hour") =>
        LET n == Min(hours_per_day, schism_files - day * hours_per_day)
        IN \A v \in RegridVars :
              /\ data[v].shape = <<n, target_shape[1], target_shape[2]>>
              /\ Len(data[v].slices) = n
              /\ \A k \in 1..n :
                    IF k <= h
                    THEN /\ data[v].writes[k] = 1
                         /\ data[v].slices[k] = Slice(day * hours_per_day + k, 0, v)
                    ELSE /\ data[v].writes[k] = 0
                         /\ data[v].slices[k] = Zeros

\* C9, its case: a day of three snapshots is filled, on the second day.
C9_Witness ==
    /\ prog = "mobile_bay" /\ pc = "hour"
    /\ day = 1 /\ h = 3 /\ Len(data["U"].slices) = 3
    /\ \A k \in 1..3 : data["U"].writes[k] = 1

\* C10: every node whose point and value are handed to griddata has a value, a
\* longitude and a latitude that are not NaN, in regrid_schism_data and in
\* regrid_timeseries.
C10_NoNaNNodeInterpolated ==
    \A n \in griddata_call.points :
        ~isnan(vals[n]) /\ ~isnan(lons[n]) /\ ~isnan(lats[n])

(***************************************************************************)
(* Claims about the regridding onto the target grid (SpecGrid).            *)
(***************************************************************************)
AllNaN(field) == \A n \in DOMAIN field : isnan(field[n])
Logged(w) == \E k \in 1..Len(warnings) : warnings[k] = w
Cells(grid) == {grid[iy][ix] : iy \in 1..Len(target_lats), ix \in 1..Len(target_lons)}
InHull(px, py) ==
    /\ Weight(lons, lats, 2, 3, px, py) * Det(lons, lats) >= 0
    /\ Weight(lons, lats, 3, 1, px, py) * Det(lons, lats) >= 0
    /\ Weight(lons, lats, 1, 2, px, py) * Det(lons, lats) >= 0

\* C11: when regrid_schism_data has returned for a snapshot, each variable
\* whose node values are all NaN has an all-0.0 grid and a logged warning, and
\* each other variable has the grid griddata computes from its valid nodes;
\* when it has raised, some variable of the snapshot has valid nodes that
\* griddata cannot triangulate, so an all-NaN variable never aborts the run.
C11_AllNaNVariableIsZeros ==
    (prog = "grid" /\ vals # <<>>) =>
        /\ pc # "failed" =>
              \A var_name \in RegridVars :
                  IF AllNaN(vals[var_name])
                  THEN /\ regridded[var_name] = np_zeros(target_lons, target_lats)
                       /\ Logged(NoValidData(var_name))
                  ELSE regridded[var_name] =
                           griddata(valid_mask(vals[var_name], lons, lats), lons,
                                    lats, vals[var_name], target_lons,
                                    target_lats, ZeroCell).grid
        /\ pc = "failed" =>
              \E var_name \in RegridVars :
                  /\ ~AllNaN(vals[var_name])
                  /\ ~Triangulable(valid_mask(vals[var_name], lons, lats),
                                   lons, lats)

\* C11, its case: U is all NaN in the last snapshot, V is regridded to a grid
\* that is not all zero, and the run went on to a second snapshot.
C11_Witness ==
    /\ prog = "grid" /\ pc = "regrid" /\ t = 2
    /\ AllNaN(vals["U"])
    /\ regridded["U"] = np_zeros(target_lons, target_lats)
    /\ Logged(NoValidData("U"))
    /\ \E c \in Cells(regridded["V"]) : c.num # 0

\* C12: every cell of every regridded array is a number, never NaN and never
\* missing, in regrid_schism_data and in regrid_variable.
C12_EveryCellDefined ==
    /\ (prog = "grid" /\ regridded # <<>>) =>
          \A var_name \in DOMAIN regridded :
              \A c \in Cells(regridded[var_name]) : ~c.nan
    /\ (prog = "regridder" /\ pc = "returned") =>
          /\ regridded.kind = "array"
          /\ \A c \in Cells(regridded.grid) : ~c.nan

\* C13: with nodes at (0,0), (1,0), (0,1), U = 1.0, 2.0, 3.0 and resolution
\* 0.5 (the unit of length is 0.5), the regridded U is 2.5 at (0.5, 0.5) and
\* the fill value 0.0 at (1, 1).
C13_ThreeNodeExample ==
    ( /\ prog = "grid" /\ pc \in {"regrid", "done"} /\ vals # <<>>
      /\ lons = <<Num(0), Num(2), Num(0)>>
      /\ lats = <<Num(0), Num(0), Num(2)>>
      /\ target_resolution = 1
      /\ vals["U"] = <<Num(1), Num(2), Num(3)>> ) =>
        /\ target_lons = <<0, 1, 2>> /\ target_lats = <<0, 1, 2>>
        /\ regridded["U"][2][2] = Frac(5, 2)
        /\ regridded["U"][3][3] = ZeroCell

\* C13, its case: the example has been regridded.
C13_Witness ==
    /\ prog = "grid" /\ pc = "regrid" /\ t = 1
    /\ lons = <<Num(0), Num(2), Num(0)>>
    /\ lats = <<Num(0), Num(0), Num(2)>>
    /\ target_resolution = 1
    /\ vals["U"] = <<Num(1), Num(2), Num(3)>>
    /\ regridded["U"][2][2] = Frac(5, 2)

\* C14: in the bathymetry file of MobileBayConverter a cell has mbathy = 1
\* exactly when its regridded depth is greater than 0; a cell outside the hull
\* of the nodes and every cell of an all-NaN depth field has mbathy = 0.
C14_WetMask ==
    (prog = "grid" /\ pc = "done") =>
        \A iy \in 1..Len(target_lats), ix \in 1..Len(target_lons) :
            /\ mbathy[iy][ix] \in {0, 1}
            /\ mbathy[iy][ix] = 1 <=>
                  (~bathy_regridded[iy][ix].nan /\ bathy_regridded[iy][ix].num > 0)
            /\ ~InHull(target_lons[ix], target_lats[iy]) => mbathy[iy][ix] = 0
            /\ AllNaN(depths) => mbathy[iy][ix] = 0

\* C14, its case: a bathymetry with a wet cell, a cell of depth 0 inside the
\* hull and a cell outside the hull.
C14_Witness ==
    /\ prog = "grid" /\ pc = "done"
    /\ \E iy \in 1..Len(target_lats), ix \in 1..Len(target_lons) :
          mbathy[iy][ix] = 1
    /\ \E iy \in 1..Len(target_lats), ix \in 1..Len(target_lons) :
          /\ InHull(target_lons[ix], target_lats[iy])
          /\ bathy_regridded[iy][ix] = ZeroCell
    /\ \E iy \in 1..Len(target_lats), ix \in 1..Len(target_lons) :
          ~InHull(target_lons[ix], target_lats[iy])

(***************************************************************************)
(* Claims about the target grid in floating point (SpecFloat).             *)
(***************************************************************************)
\* C15: the longitudes of the target grid start at the least node longitude,
\* their last point is at or beyond the greatest node longitude and less than
\* that plus the resolution, and there are exactly ceil((max - min) / r) + 1
\* of them.
C15_AxisCoversExtent ==
    (prog \in {"float_grid", "float_regridder"} /\ pc = "done") =>
        LET lo == amin(lons)
            hi == amax(lons)
            r == target_resolution
            n == Len(target_lons)
        IN /\ n = Ceil(hi - lo, r) + 1
           /\ target_lons[1] = lo
           /\ target_lons[n] >= hi
           /\ target_lons[n] < hi + r

\* The files of the day convert is working on.
DayFileSet == {DailyFile(letter, day) : letter \in VarLetters}

\* C18: a snapshot that lacks depthAverageVelX, depthAverageVelY or elevation
\* makes MobileBayConverter.convert fail, with no file of the day of that
\* snapshot and no settings.json written; regrid_variable fails for a variable
\* that is not in the data, and returns nothing.
C18_MissingVariableFails ==
    ds_missing # {} =>
        /\ pc = "failed"
        /\ prog = "mobile_bay" =>
              /\ DayFileSet \cap DOMAIN out = {}
              /\ SettingsFile \notin DOMAIN out
        /\ prog = "regridder" => regridded = <<>>

\* The second snapshot of the second day lacks elevation: the files of the
\* first day are written.
C18_Witness ==
    /\ prog = "mobile_bay" /\ ds_missing = {"elevation"} /\ pc = "failed"
    /\ day = 1 /\ h = 1
    /\ DailyFile("U", 0) \in DOMAIN out

\* C19: when a conversion has returned or failed, no snapshot file it opened
\* is still open.
C19_SnapshotsClosed ==
    (prog \in {"mobile_bay", "robust", "timeseries"} /\ pc \in {"done", "failed"})
        => open_files = {}

\* A node inside the bounds main handed on (a bound not given bounds nothing).
InBounds(n) ==
    /\ lon_bounds # <<>> =>
          lons[n].v >= lon_bounds[1] /\ lons[n].v <= lon_bounds[2]
    /\ lat_bounds # <<>> =>
          lats[n].v >= lat_bounds[1] /\ lats[n].v <= lat_bounds[2]

BoundsGiven ==
    /\ prog \in {"timeseries_main", "complete_main"}
    /\ lon_bounds # <<>> \/ lat_bounds # <<>>
    /\ ~Malformed(lon_bounds) /\ ~Malformed(lat_bounds)

\* C16: with bounds supplied, the mask derived by the loading step is the
\* one every later step uses: the nodes kept, the nodes the target grid takes
\* its extent from, and the points and the values of every call of griddata
\* (every variable, every time step, the depths) are exactly the nodes of
\* that mask, and each of them lies inside the bounds.
C16_OneMaskEverywhere ==
    (BoundsGiven /\ spatial_mask.given) =>
        /\ \A n \in spatial_mask.nodes : InBounds(n)
        /\ subset = spatial_mask.nodes
        /\ extent_nodes \subseteq spatial_mask.nodes
        /\ \A c \in griddata_calls :
              c.points = spatial_mask.nodes /\ c.values = spatial_mask.nodes

\* The time series of two snapshots regridded inside 0 <= lon <= 1: seven
\* calls of griddata, and nodes of the cloud left out.
C16_Witness ==
    /\ prog = "timeseries_main" /\ pc = "done"
    /\ lon_bounds = <<0, 1>> /\ lat_bounds = <<>>
    /\ Cardinality(griddata_calls) = 3 * 2 + 1
    /\ extent_nodes = spatial_mask.nodes
    /\ spatial_mask.nodes # DOMAIN lons

\* C17: with inverted or degenerate bounds, either main ends in an error
\* with no snapshot file opened and no output file written.
C17_InvertedBoundsRejectedFirst ==
    (/\ prog \in {"timeseries_main", "complete_main"}
     /\ ~Malformed(lon_bounds) /\ ~Malformed(lat_bounds)
     /\ Inverted(lon_bounds) \/ Inverted(lat_bounds))
        => /\ pc \in {"start", "failed"}
           /\ opened = 0
           /\ out = NoFiles

\* The descriptors written so far.
DescriptorFiles == {CompleteSettingsFile, TimeseriesSettingsFile} \cap DOMAIN out

\* C20: every name a written descriptor declares resolves: its variables and
\* its time dimension in the field files, its lon and lat names in the mesh
\* file it names, its bathymetry names in the bathymetry file.
C20_DescriptorNamesResolve ==
    prog \in {"timeseries_main", "complete_main"} =>
        \A f \in DescriptorFiles :
            LET s == out[f]
                style == IF f = CompleteSettingsFile THEN BaseName
                         ELSE TimeseriesDate
            IN /\ \A letter \in VarLetters :
                    /\ FileName(letter, style) \in DOMAIN out
                    /\ out[FileName(letter, style)].nemo_var \in s.variables
                    /\ \E i \in 1..Len(out[FileName(letter, style)].dims) :
                          out[FileName(letter, style)].dims[i] = s.time
               /\ MeshFile \in DOMAIN out
               /\ {s.lon, s.lat} \subseteq out[MeshFile].variables
               /\ BathyFile \in DOMAIN out
               /\ {s.bathymetry_variable, s.bathymetry_lon, s.bathymetry_lat}
                      \subseteq out[BathyFile].variables

\* C21: when MobileBayConverter.convert has returned True (it had at least one
\* snapshot), output_dir holds settings.json, ocean_mesh_hgr.nc,
\* bathymetry_mesh_zgr.nc and the five field files of 2024-01-01.
C21_ProductionFileSet ==
    (prog = "mobile_bay" /\ pc = "done") =>
        /\ schism_files >= 1
        /\ {SettingsFile, MeshFile, BathyFile} \subseteq DOMAIN out
        /\ \A letter \in VarLetters :
              FileName(letter, <<2024, 1, 1>>) \in DOMAIN out

\* convert has returned True for a single snapshot.
C21_Witness ==
    /\ prog = "mobile_bay" /\ pc = "done" /\ schism_files = 1
    /\ FileName("S", <<2024, 1, 1>>) \in DOMAIN out

\* The selected snapshots the U files of the days 0..MaxFiles hold.
DailySnapshots == WrittenSnapshots("U", MaxFiles + 1)

\* C22: when convert_mobile_schism_daily has finished, every day that holds a
\* selected snapshot has its five files, and every selected snapshot is a
\* time step of exactly one daily file.
C22_EveryDayEverySnapshot ==
    (prog = "daily" /\ pc = "done") =>
        /\ \A d \in 0..(Ceil(schism_files, hours_per_day) - 1) :
              \A letter \in VarLetters : Has(DailyFile(letter, d))
        /\ \A f \in 1..schism_files : Count(DailySnapshots, f) = 1

\* Whether a file list is in ascending order of the snapshot numbers.
NumericOrder(files) ==
    \A i \in 1..Len(files), j \in 1..Len(files) :
        i < j => extract_number(files[i]) < extract_number(files[j])

\* C23: the snapshots a glob pattern selects are assembled in ascending
\* numeric order by MobileBayConverter.get_schism_files and by
\* SCHISMTimeSeriesConverter._parse_file_input alike.
C23_GlobNumericOrder ==
    (/\ pc = "returned"
     /\ \/ prog = "get_schism_files"
        \/ prog = "parse_file_input" /\ file_input.kind = "pattern") =>
        NumericOrder(sorted_files)

\* The k-th smallest of a set of numbers.
KthSmallest(S, k) == CHOOSE x \in S : Cardinality({y \in S : y < x}) = k - 1

AggregatedFile(var) == FileName(var, AggregatedDate)

\* C24: once aggregate_mobile_timeseries has ended, every variable that has
\* a file in some work directory has an aggregated file of exactly n time
\* steps, n the number of work directories, with time coordinate 0 .. n-1
\* and its k-th step taken from the k-th directory in numeric order.
C24_AggregatedSteps ==
    (prog = "aggregate" /\ pc \in {"done", "failed", "returned_false"}) =>
        LET n == Cardinality(listing)
        IN \A var \in VarLetters :
              (\E d \in listing : var \in work_dirs[d]) =>
                  /\ Has(AggregatedFile(var))
                  /\ Len(out[AggregatedFile(var)].steps) = n
                  /\ \A k \in 1..n :
                        /\ out[AggregatedFile(var)].steps[k].time_counter = k - 1
                        /\ out[AggregatedFile(var)].steps[k].dir =
                              KthSmallest(listing, k)

\* C25: whenever complete_timeseries_settings.json is written, the mesh file,
\* the bathymetry file and the aggregated file of each of U, V, W, T and S
\* exist beside it.
C25_SettingsFilesExist ==
    (prog = "aggregate" /\ Has(AggregatedSettingsFile)) =>
        /\ Has(FileName(out[AggregatedSettingsFile].ocean_mesh, <<>>))
        /\ Has(FileName(out[AggregatedSettingsFile].bathymetry_mesh, <<>>))
        /\ \A var \in VarLetters : Has(AggregatedFile(var))

\* The calendar date a time value falls on when it is read as seconds since
\* 2024-01-01 00:00:00.
DateOfSeconds(seconds) ==
    StrftimeYmd(seconds \div (SecondsPerHour * HoursPerCalendarDay))

\* C27: for every hours_per_day, each time value of a daily file that
\* MobileBayConverter.convert wrote, read with the unit of the file, seconds
\* since 2024-01-01 00:00:00, falls on the calendar date of the file's name.
C27_TimesOnNamedDate ==
    prog = "mobile_bay" =>
        \A d \in 0..MaxFiles, letter \in VarLetters :
            Has(DailyFile(letter, d)) =>
                /\ out[DailyFile(letter, d)].units = SecondsUnits
                /\ \A i \in 1..Len(out[DailyFile(letter, d)].time_counter) :
                      DateOfSeconds(out[DailyFile(letter, d)].time_counter[i])
                          = StrftimeYmd(d)

\* C26: after any sequence of runs of MobileBayConverter.convert into the
\* same output directory, when settings.json is there, every daily field
\* file of the directory was written by the run that wrote settings.json.
C26_FilesOfOneRun ==
    (prog = "mobile_bay" /\ pc \in {"done", "failed"}
       /\ SettingsFile \in Directory) =>
        \A d \in 0..MaxFiles, letter \in VarLetters :
            DailyFile(letter, d) \in Directory =>
                WrittenBy(DailyFile(letter, d)) = WrittenBy(SettingsFile)

\* Whether a level, in tenths of a metre, is strictly shallower than the depth
\* of a cell.
Shallower(level, cell) == ~cell.nan /\ level * cell.den < 10 * cell.num

\* C28: create_nemo_bathymetry gives each cell the number of target depth
\* levels strictly shallower than the interpolated depth of the cell: 0
\* outside the convex hull of the nodes, and never less than 0 nor more than
\* the number of levels.
C28_MbathyCountsShallowerLevels ==
    (prog = "regridder" /\ mbathy # <<>>) =>
        \A iy \in 1..Len(target_lats), ix \in 1..Len(target_lons) :
            /\ mbathy[iy][ix] =
                  Cardinality({i \in 1..Len(target_depths) :
                      Shallower(target_depths[i], bathy_regridded[iy][ix])})
            /\ ~InHull(target_lons[ix], target_lats[iy]) => mbathy[iy][ix] = 0
            /\ mbathy[iy][ix] \in 0..Len(target_depths)

C28_Witness ==
    /\ prog = "regridder" /\ mbathy # <<>> /\ Len(target_depths) = 2
    /\ \E iy \in 1..Len(target_lats), ix \in 1..Len(target_lons) :
          mbathy[iy][ix] = 2
    /\ \E iy \in 1..Len(target_lats), ix \in 1..Len(target_lons) :
          mbathy[iy][ix] = 1
    /\ \E iy \in 1..Len(target_lats), ix \in 1..Len(target_lons) :
          /\ ~InHull(target_lons[ix], target_lats[iy])
          /\ mbathy[iy][ix] = 0

\* The observations of particle p (from 1) at which both coordinates are
\* numbers, and the features of particle p.
ValidObs(p) ==
    {k \in 1..Len(trajectories.lon[p]) :
        ~trajectories.lon[p][k].nan /\ ~trajectories.lat[p][k].nan}
FeaturesOf(p) == {i \in 1..Len(features) : features[i].particle_id = p - 1}

\* C29: for arrays of shape (particle, observation), zarr_to_geojson returns
\* exactly one LineString feature per particle that has a position with both
\* coordinates, none for the others; its coordinates are the valid positions
\* of the particle in observation order and trajectory_length is their number.
C29_OneFeaturePerParticle ==
    (prog = "zarr_to_geojson" /\ pc = "returned" /\ trajectories.ndim = 2) =>
        /\ \A i \in 1..Len(features) :
              features[i].particle_id \in 0..(Len(trajectories.lon) - 1)
        /\ \A p \in 1..Len(trajectories.lon) :
              IF ValidObs(p) = {}
              THEN FeaturesOf(p) = {}
              ELSE /\ Cardinality(FeaturesOf(p)) = 1
                   /\ \A i \in FeaturesOf(p) :
                         /\ features[i].geometry = "LineString"
                         /\ features[i].trajectory_length = Cardinality(ValidObs(p))
                         /\ Len(features[i].coordinates) = Cardinality(ValidObs(p))
                         /\ \A j \in 1..Len(features[i].coordinates) :
                               \E k \in ValidObs(p) :
                                  /\ Cardinality({l \in ValidObs(p) : l < k}) = j - 1
                                  /\ features[i].coordinates[j] =
                                        <<trajectories.lon[p][k], trajectories.lat[p][k]>>

\* C30: after every /simulate request that reached the simulation step,
\* answered with 200 or with 500, the temporary trajectory output no longer
\* exists on disk.
C30_TemporaryOutputRemoved ==
    (prog = "simulate" /\ response \in {200, 500}) =>
        OutputFile \notin tmp_files

====
